---------------------------- MODULE Spec2Model ----------------------------
(***************************************************************************)
(* Verification model of the parallel refinement engine of Mt-KaHyPar:     *)
(* the SPMC work queue, the quotient-graph edge ownership protocol, the    *)
(* parallel prefix sum, the deterministic label propagation refiner and    *)
(* the localized k-way FM search.  Each component has its own              *)
(* specification (SpecQueue, SpecEdge, ...); the variables of the other    *)
(* components are frozen at their idle value in it.                        *)
(***************************************************************************)
EXTENDS Integers, Sequences, FiniteSets, TLC

VARIABLES
  \* ---- SPMCQueue (work_stack.h) ----
  elements,             \* vec<T> elements (the live content, 1-indexed here)
  capacity,             \* elements.capacity()
  front,                \* CAtomic<size_t> front
  ppc,                  \* position of the producer inside push_back
  pel,                  \* the element the producer is pushing
  old_front,            \* producer local: old_front
  front_spin_variable,  \* producer local: front_spin_variable
  cpc,                  \* position of each consumer inside try_pop_front
  cf,                   \* consumer local: f
  cslot,                \* consumer local: slot
  popped,               \* popped[el]: number of successful pops that returned el
  nPushed,              \* number of push_back calls that returned
  \* ---- QuotientGraphEdge ownership (quotient_graph.h) ----
  ownership,            \* ownership[e]: CAtomic<SearchID> of quotient-graph edge e
  held,                 \* held[t]: the search (id, edge) thread t runs, or NoSearch
  nextSearch,           \* _searches.size(): the next search id
  acquires,             \* acquires[e]: number of successful acquire calls
  releases,             \* releases[e]: number of release calls
  \* ---- parallel_prefix_sum ----
  mem_in,               \* the input range [first, last)
  mem_out,              \* the output range (unused when the call is in-place)
  inplace,              \* out == first
  orig,                 \* the input as it was before the call
  bounds_,              \* bounds_[b]: first index of block b; bounds_[B+1] = n+1
  bpc,                  \* bpc[b]: phase of block b
  bcur,                 \* bcur[b]: next index block b reads
  bsum,                 \* bsum[b]: running sum of block b
  btot,                 \* btot[b]: total of block b once its up-sweep ended
  written,              \* indices whose output was written
  \* ---- QuotientGraph cut hyperedges (quotient_graph.h) ----
  cpart,                \* partID of every node of the partitioned hypergraph
  cut_hes,              \* cut_hes[q]: concurrent_vector<HyperedgeID> of edge q
  first_valid_entry,    \* first_valid_entry[q]
  lastCall,             \* the operation of the quotient graph that ran last
  lastNew,              \* the (he, block) pairs addNewCutHyperedge was called for by it
  nMoves,               \* number of changeNodePart calls
  \* ---- DeterministicLabelPropagationRefiner ----
  edge_weight,          \* weight of every hyperedge
  bucket,               \* bucket of every node in the permutation
  part_id,              \* partID of every node
  pin_count,            \* pin_count[he][b]: pinCountInPart(he, b)
  moves,                \* the move buffer
  sorted_moves,         \* moves grouped by direction and sorted
  swap_prefix,          \* swap_prefix of strategy A
  tasks,                \* the iterations of the parallel loop of applyMovesIf
  my_gain,              \* the attributed gain applyMovesIf has summed up
  lpc,                  \* position inside refineImpl
  iter,                 \* iter
  sub_round,            \* sub_round
  num_sub_rounds,       \* num_sub_rounds
  round_nodes,          \* the nodes in the permutation of the iteration
  active_nodes,         \* active_nodes (sorted before it is used)
  increase_sub_rounds,  \* increase_sub_rounds
  num_moves,            \* num_moves
  num_moves_in_sub_round, \* num_moves_in_sub_round
  round_improvement,    \* round_improvement
  overall_improvement,  \* overall_improvement
  sub_round_improvement, \* sub_round_improvement
  reverted,             \* reverted of strategy A
  start_part,           \* the partition at the start of the sub-round
  start_active,         \* active_nodes at the start of the sub-round
  sub_nodes,            \* the nodes of the sub-round
  interleaved,          \* two moves of the sub-round were applied at the same time
  \* ---- LocalizedKWayFM (localized_kway_fm_core.h) ----
  perform_moves_global, \* context.refinement.fm.perform_moves_global
  allow_zero_gain_moves, \* context.refinement.fm.allow_zero_gain_moves
  max_part_weights,      \* context.partition.max_part_weights
  retriesInCall,         \* retriesInCall[t]: retries of the findNextMove call of thread t since the partition last changed
  partID,               \* partID of every node of the global partitioned hypergraph
  searchOfNode,         \* nodeTracker.searchOfNode
  highestActiveSearchID, \* nodeTracker.highestActiveSearchID
  refinementNodes,      \* the nodes in the work container sharedData.refinementNodes
  timestamps,           \* the timestamps of the work container
  fruitlessSeed,        \* sharedData.fruitlessSeed
  moveTracker,          \* sharedData.moveTracker: the moves by MoveID
  fm,                   \* fm[t]: the LocalizedKWayFM object of thread t and the locals of its call
  \* ---- WorkContainer (work_stack.h) ----
  tls_queues,           \* tls_queues[t]: the SPMCQueue of thread t (elements, front, capacity)
  wc_timestamps,        \* WorkContainer::timestamps
  wc_current,           \* WorkContainer::current
  steal_failures,       \* WorkContainer::steal_failures
  wc,                   \* wc[t]: position and locals of thread t inside push_back or try_pop
  removedSinceClear,    \* nodes a try_pop took out since the last clear() and no push_back appended since
  writtenThisRound,     \* nodes whose timestamp was stored since the last clear()
  counterWrapped,       \* an addition on current exceeded the range of TimestampT
  wcPushes,             \* push_back calls since the last clear()
  \* ---- QuotientGraph active block scheduler (quotient_graph.h) ----
  rounds,               \* ActiveBlockScheduler::_rounds (queue and active blocks of every round)
  is_in_queue,          \* QuotientGraphEdge::is_in_queue of every block pair
  qg_ownership,         \* QuotientGraphEdge::ownership of every block pair
  num_active_searches_on_blocks, \* ActiveBlockScheduler::_num_active_searches_on_blocks
  searches,             \* QuotientGraph::_searches
  everQueued,           \* everQueued[r]: the block pairs that were pushed into the queue of round r
  lastRequest,          \* what the last requestNewSearch returned and whether it found a schedulable pair
  \* ---- Prefix search of strategy A (deterministic_label_propagation.cpp) ----
  prefix_in,            \* the arguments of the prefix search of one block pair
  prefix_run,           \* the loop of findBestPrefixesSequentially and both results
  \* ---- Revert passes of strategy B1 (deterministic_label_propagation.cpp) ----
  b1_phg,               \* the partition applyMovesSortedByGainAndRevertUnbalanced is entered with
  b1_run,               \* moves, part_weights, num_overloaded_blocks, j, last_valid_move, num_extra_rounds
  \* ---- Strategy B2 with recalculated gains (deterministic_label_propagation) ----
  b2_phg,               \* the partition and the edge weights applyMovesSortedByGainWithRecalculation is entered with
  b2_run,               \* moves, last_recalc_round, recalc_round, best_index, best_gain and the partition
  \* ---- Hyperedge claims of strategy B2 (deterministic_label_propagation.cpp) ----
  recalc,               \* recalc_round, last_recalc_round and how often each hyperedge was processed in the call
  recalc_thread,        \* the threads of the gain recalculation
  \* ---- Iterations of refineImpl (deterministic_label_propagation.cpp) ----
  refine,               \* the counters of refineImpl and what the last sub-round did
  \* ---- SPMCQueue without concurrent pops (work_stack.h) ----
  fifo,                 \* an SPMCQueue used by one thread, with what was pushed and popped
  \* ---- activation of neighbours (deterministic_label_propagation.cpp) ----
  activation,           \* round, last_moved_in_round and what was appended to active_nodes
  activator,            \* the locals of the threads that apply moves
  \* ---- GainDeltaStrategy (gain_delta_strategy.h) ----
  gd                    \* the search of GainDeltaStrategy: partition, queues, move

qvars == <<elements, capacity, front, ppc, pel, old_front, front_spin_variable,
           cpc, cf, cslot, popped, nPushed>>

evars == <<ownership, held, nextSearch, acquires, releases>>

pvars == <<mem_in, mem_out, inplace, orig, bounds_, bpc, bcur, bsum, btot, written>>

cvars == <<cpart, cut_hes, first_valid_entry, lastCall, lastNew, nMoves>>

lvars == <<edge_weight, bucket, part_id, pin_count, moves, sorted_moves, swap_prefix, tasks, my_gain, lpc, iter, sub_round, num_sub_rounds, round_nodes, active_nodes, increase_sub_rounds, num_moves, num_moves_in_sub_round, round_improvement, overall_improvement, sub_round_improvement, reverted, start_part, start_active, sub_nodes, interleaved>>

fvars == <<perform_moves_global, allow_zero_gain_moves, max_part_weights, retriesInCall, partID, searchOfNode, highestActiveSearchID, refinementNodes, timestamps, fruitlessSeed, moveTracker, fm>>

wvars == <<tls_queues, wc_timestamps, wc_current, steal_failures, wc, removedSinceClear, writtenThisRound, counterWrapped, wcPushes>>

svars == <<rounds, is_in_queue, qg_ownership, num_active_searches_on_blocks, searches, everQueued, lastRequest>>

bvars == <<prefix_in, prefix_run>>

rvars == <<b1_phg, b1_run>>

gvars == <<b2_phg, b2_run>>

kvars == <<recalc, recalc_thread>>

ivars == <<refine>>

hvars == <<fifo>>

avars == <<activation, activator>>

dvars == <<gd>>

vars == <<qvars, evars, pvars, cvars, lvars, fvars, wvars, svars, bvars, rvars, gvars, kvars, ivars, hvars, avars, dvars>>

\* the variables of the other components, which a component's steps leave alone
notq == <<evars, pvars, cvars, lvars, fvars, wvars, svars, bvars, rvars, gvars, kvars, ivars, hvars, avars, dvars>>
note == <<qvars, pvars, cvars, lvars, fvars, wvars, svars, bvars, rvars, gvars, kvars, ivars, hvars, avars, dvars>>
notp == <<qvars, evars, cvars, lvars, fvars, wvars, svars, bvars, rvars, gvars, kvars, ivars, hvars, avars, dvars>>
notc == <<qvars, evars, pvars, lvars, fvars, wvars, svars, bvars, rvars, gvars, kvars, ivars, hvars, avars, dvars>>
notl == <<qvars, evars, pvars, cvars, fvars, wvars, svars, bvars, rvars, gvars, kvars, ivars, hvars, avars, dvars>>
notf == <<qvars, evars, pvars, cvars, lvars, wvars, svars, bvars, rvars, gvars, kvars, ivars, hvars, avars, dvars>>
notw == <<qvars, evars, pvars, cvars, lvars, fvars, svars, bvars, rvars, gvars, kvars, ivars, hvars, avars, dvars>>
nots == <<qvars, evars, pvars, cvars, lvars, fvars, wvars, bvars, rvars, gvars, kvars, ivars, hvars, avars, dvars>>
notb == <<qvars, evars, pvars, cvars, lvars, fvars, wvars, svars, rvars, gvars, kvars, ivars, hvars, avars, dvars>>
notr == <<qvars, evars, pvars, cvars, lvars, fvars, wvars, svars, bvars, gvars, kvars, ivars, hvars, avars, dvars>>
notg == <<qvars, evars, pvars, cvars, lvars, fvars, wvars, svars, bvars, rvars, kvars, ivars, hvars, avars, dvars>>
notk == <<qvars, evars, pvars, cvars, lvars, fvars, wvars, svars, bvars, rvars, gvars, ivars, hvars, avars, dvars>>
noti == <<qvars, evars, pvars, cvars, lvars, fvars, wvars, svars, bvars, rvars, gvars, kvars, hvars, avars, dvars>>
noth == <<qvars, evars, pvars, cvars, lvars, fvars, wvars, svars, bvars, rvars, gvars, kvars, ivars, avars, dvars>>
nota == <<qvars, evars, pvars, cvars, lvars, fvars, wvars, svars, bvars, rvars, gvars, kvars, ivars, hvars, dvars>>
notd == <<qvars, evars, pvars, cvars, lvars, fvars, wvars, svars, bvars, rvars, gvars, kvars, ivars, hvars, avars>>

Min(a, b) == IF a < b THEN a ELSE b
Max(a, b) == IF a > b THEN a ELSE b

(***************************************************************************)
(*                         SPMCQueue  (work_stack.h)                       *)
(***************************************************************************)

\* size_t is modelled with 31 bits: in_reallocation = max / 2
in_reallocation == 1073741823

\* bounds of the queue model
MaxPush == 3
InitCap == 2
NumConsumers == 2

Consumers == 1..NumConsumers

IdleQueue ==
  /\ elements = << >> /\ capacity = 0 /\ front = 0
  /\ ppc = "off" /\ pel = 0 /\ old_front = 0 /\ front_spin_variable = 0
  /\ cpc = << >> /\ cf = << >> /\ cslot = << >>
  /\ popped = << >> /\ nPushed = 0

\* SPMCQueue(): clear(); elements.reserve(...)
InitQueue ==
  /\ elements = << >> /\ capacity = InitCap /\ front = 0
  /\ ppc = "idle" /\ pel = 0 /\ old_front = 0 /\ front_spin_variable = 0
  /\ cpc = [c \in Consumers |-> "idle"]
  /\ cf = [c \in Consumers |-> 0]
  /\ cslot = [c \in Consumers |-> 0]
  /\ popped = [el \in 1..MaxPush |-> 0] /\ nPushed = 0

\* push_back<false>, line 60: load_front() > elements.size()
PushBegin ==
  /\ ppc = "idle" /\ nPushed < MaxPush
  /\ pel' = nPushed + 1
  /\ ppc' = IF front > Len(elements) THEN "guard_store" ELSE "cap"
  /\ UNCHANGED <<elements, capacity, front, old_front, front_spin_variable,
                 cpc, cf, cslot, popped, nPushed>>
  /\ UNCHANGED notq

\* line 61: front.store(elements.size())
PushGuardStore ==
  /\ ppc = "guard_store"
  /\ front' = Len(elements)
  /\ ppc' = "cap"
  /\ UNCHANGED <<elements, capacity, pel, old_front, front_spin_variable,
                 cpc, cf, cslot, popped, nPushed>>
  /\ UNCHANGED notq

\* lines 64-68: append when there is room, else load front for the reallocation
PushCap ==
  /\ ppc = "cap"
  /\ IF Len(elements) < capacity
       THEN /\ elements' = Append(elements, pel)
            /\ nPushed' = nPushed + 1
            /\ ppc' = "idle"
            /\ UNCHANGED <<old_front, front_spin_variable>>
       ELSE /\ old_front' = front
            /\ front_spin_variable' = Min(Len(elements), front)
            /\ ppc' = "cas"
            /\ UNCHANGED <<elements, nPushed>>
  /\ UNCHANGED <<capacity, front, pel, cpc, cf, cslot, popped>>
  /\ UNCHANGED notq

\* line 69: while (front.compare_exchange_weak(front_spin_variable, in_reallocation)) { }
\* the loop is repeated when the exchange SUCCEEDED
SpinAgain(succeeded) == succeeded

\* one evaluation of compare_exchange_weak and of the loop condition
PushCAS ==
  /\ ppc = "cas"
  /\ LET succeeded == (front = front_spin_variable) IN
       /\ front' = IF succeeded THEN in_reallocation ELSE front
       /\ front_spin_variable' = IF succeeded THEN front_spin_variable ELSE front
       /\ ppc' = IF SpinAgain(succeeded) THEN "cas" ELSE "realloc"
  /\ UNCHANGED <<elements, capacity, pel, old_front, cpc, cf, cslot, popped, nPushed>>
  /\ UNCHANGED notq

\* line 70: elements.push_back(el), which reallocates the storage
PushRealloc ==
  /\ ppc = "realloc"
  /\ elements' = Append(elements, pel)
  /\ capacity' = 2 * capacity
  /\ ppc' = "compact"
  /\ UNCHANGED <<front, pel, old_front, front_spin_variable, cpc, cf, cslot,
                 popped, nPushed>>
  /\ UNCHANGED notq

\* lines 72-77: move the live window [old_front, size) to the front and erase the rest
MoveToFront(els, of) ==
  LET o == Min(Len(els) - 1, of)
      elements_in_queue == Len(els) - o
  IN  [i \in 1..elements_in_queue |-> els[o + i]]

PushCompact ==
  /\ ppc = "compact"
  /\ old_front' = Min(Len(elements) - 1, old_front)
  /\ elements' = MoveToFront(elements, old_front)
  /\ ppc' = "release"
  /\ UNCHANGED <<capacity, front, pel, front_spin_variable, cpc, cf, cslot,
                 popped, nPushed>>
  /\ UNCHANGED notq

releasedFront_OldFront(of) == of

releasedFront_StillBlocked(of) == in_reallocation

\* line 78 (line 80 without move_to_front_after_reallocation): the value front
\* is released to after the reallocation
releasedFront(of) == 0

\* line 78: front.store(0)
PushRelease ==
  /\ ppc = "release"
  /\ front' = releasedFront(old_front)
  /\ ppc' = "idle"
  /\ nPushed' = nPushed + 1
  /\ UNCHANGED <<elements, capacity, pel, old_front, front_spin_variable,
                 cpc, cf, cslot, popped>>
  /\ UNCHANGED notq

\* try_pop_front, line 88: f = load_front()
PopLoad(c) ==
  /\ cpc[c] = "idle"
  /\ cf' = [cf EXCEPT ![c] = front]
  /\ cpc' = [cpc EXCEPT ![c] = "check"]
  /\ UNCHANGED <<elements, capacity, front, ppc, pel, old_front,
                 front_spin_variable, cslot, popped, nPushed>>
  /\ UNCHANGED notq

\* line 91: f < in_reallocation && f < elements.size()
PopCheck(c) ==
  /\ cpc[c] = "check"
  /\ cpc' = [cpc EXCEPT ![c] =
               IF cf[c] < in_reallocation /\ cf[c] < Len(elements)
                 THEN "fetch" ELSE "idle"]
  /\ UNCHANGED <<elements, capacity, front, ppc, pel, old_front,
                 front_spin_variable, cf, cslot, popped, nPushed>>
  /\ UNCHANGED notq

\* line 92: slot = front.fetch_add(1)
PopFetch(c) ==
  /\ cpc[c] = "fetch"
  /\ cslot' = [cslot EXCEPT ![c] = front]
  /\ front' = front + 1
  /\ cpc' = [cpc EXCEPT ![c] = "slot"]
  /\ UNCHANGED <<elements, capacity, ppc, pel, old_front, front_spin_variable,
                 cf, popped, nPushed>>
  /\ UNCHANGED notq

\* lines 93-97: the slot is valid: el = elements[slot]; return true
PopSlot(c) ==
  /\ cpc[c] = "slot"
  /\ popped' = IF cslot[c] < in_reallocation /\ cslot[c] < Len(elements)
                 THEN [popped EXCEPT ![elements[cslot[c] + 1]] = @ + 1]
                 ELSE popped
  /\ cpc' = [cpc EXCEPT ![c] = "idle"]
  /\ UNCHANGED <<elements, capacity, front, ppc, pel, old_front,
                 front_spin_variable, cf, cslot, nPushed>>
  /\ UNCHANGED notq

QueueStep ==
  \/ PushBegin
  \/ PushGuardStore
  \/ PushCap
  \/ PushCAS
  \/ PushRealloc
  \/ PushCompact
  \/ PushRelease
  \/ \E c \in Consumers : PopLoad(c)
  \/ \E c \in Consumers : PopCheck(c)
  \/ \E c \in Consumers : PopFetch(c)
  \/ \E c \in Consumers : PopSlot(c)

\* the storage of the queue is being reallocated or compacted by the producer
Reallocating == ppc \in {"compact", "release"}

\* unsafe_size(), lines 111-114
unsafe_size == IF Len(elements) >= front THEN Len(elements) - front ELSE 0

\* empty(), lines 116-118
empty == unsafe_size > 0

(***************************************************************************)
(*        QuotientGraphEdge::acquire / release  (quotient_graph.h)         *)
(***************************************************************************)

\* numeric_limits<SearchID>::max(), SearchID modelled with 31 bits
INVALID_SEARCH_ID == 2147483647

\* bounds of the ownership model
NumQGBlocks == 3
NumThreads == 2
MaxSearches == 4

QGBlocks == 0..(NumQGBlocks - 1)
QGEdges == {p \in QGBlocks \X QGBlocks : p[1] < p[2]}
Threads == 1..NumThreads
NoSearch == [id |-> INVALID_SEARCH_ID, edge |-> <<0, 0>>]

IdleEdge ==
  /\ ownership = << >> /\ held = << >> /\ nextSearch = 0
  /\ acquires = << >> /\ releases = << >>

\* QuotientGraphEdge(): ownership(INVALID_SEARCH_ID)
InitEdge ==
  /\ ownership = [e \in QGEdges |-> INVALID_SEARCH_ID]
  /\ held = [t \in Threads |-> NoSearch]
  /\ nextSearch = 0
  /\ acquires = [e \in QGEdges |-> 0]
  /\ releases = [e \in QGEdges |-> 0]

\* an acquire that stores without comparing
acquire_NoCompare(own, search_id) == [ok |-> TRUE, own |-> search_id]

\* acquire: ownership.compare_exchange_strong(expected = INVALID_SEARCH_ID, search_id)
acquire(own, search_id) ==
  IF own = INVALID_SEARCH_ID
    THEN [ok |-> TRUE, own |-> search_id]
    ELSE [ok |-> FALSE, own |-> own]

\* release: ownership.store(INVALID_SEARCH_ID)
release(own, search_id) == INVALID_SEARCH_ID

\* a thread requests a search with the next search id on block pair e and
\* tries to acquire the edge
RequestSearch(t, e) ==
  /\ held[t] = NoSearch /\ nextSearch < MaxSearches
  /\ LET r == acquire(ownership[e], nextSearch) IN
       /\ ownership' = [ownership EXCEPT ![e] = r.own]
       /\ IF r.ok
            THEN /\ held' = [held EXCEPT ![t] = [id |-> nextSearch, edge |-> e]]
                 /\ nextSearch' = nextSearch + 1
                 /\ acquires' = [acquires EXCEPT ![e] = @ + 1]
            ELSE UNCHANGED <<held, nextSearch, acquires>>
  /\ UNCHANGED releases
  /\ UNCHANGED note

\* the thread's search finishes its construction and releases its edge
ReleaseSearch(t) ==
  /\ held[t] # NoSearch
  /\ ownership' = [ownership EXCEPT ![held[t].edge] = release(@, held[t].id)]
  /\ releases' = [releases EXCEPT ![held[t].edge] = @ + 1]
  /\ held' = [held EXCEPT ![t] = NoSearch]
  /\ UNCHANGED <<nextSearch, acquires>>
  /\ UNCHANGED note

EdgeStep ==
  \/ \E t \in Threads, e \in QGEdges : RequestSearch(t, e)
  \/ \E t \in Threads : ReleaseSearch(t)

Owners(e) == {t \in Threads : held[t] # NoSearch /\ held[t].edge = e}

(***************************************************************************)
(*                          parallel_prefix_sum                            *)
(***************************************************************************)

\* bounds of the prefix-sum model
MaxN == 3
MaxBlocks == 2
WordBits == 2

\* the neutral element and the old content of the output in the tests
neutral_element == 0
OldOutValue == 420

RECURSIVE Pow2(_)
Pow2(w) == IF w = 0 THEN 1 ELSE 2 * Pow2(w - 1)
Modulus == Pow2(WordBits)
InVals == {0, 1, Modulus - 1}

\* std::plus on the unsigned word
Plus(a, b) == (a + b) % Modulus

\* std::partial_sum / sequential_prefix_sum: out[i] = in[0] + ... + in[i]
RECURSIVE RunningSum(_, _)
RunningSum(s, i) == IF i = 0 THEN neutral_element ELSE Plus(RunningSum(s, i - 1), s[i])
PartialSum(s) == [i \in 1..Len(s) |-> RunningSum(s, i)]

\* every way to cut 1..n into nb contiguous non-empty blocks: the firsts of the
\* blocks followed by n + 1
Splits(n, nb) ==
  {f \in [1..(nb + 1) -> 1..(n + 1)] :
     /\ f[1] = 1 /\ f[nb + 1] = n + 1
     /\ \A b \in 1..nb : f[b] < f[b + 1]}

Blocks == 1..(Len(bounds_) - 1)

IdlePrefix ==
  /\ mem_in = << >> /\ mem_out = << >> /\ inplace = FALSE /\ orig = << >>
  /\ bounds_ = <<1>> /\ bpc = << >> /\ bcur = << >> /\ bsum = << >>
  /\ btot = << >> /\ written = {}

InitPrefix ==
  \E n \in 1..MaxN :
    \E nb \in 1..Min(MaxBlocks, n) :
      /\ orig \in [1..n -> InVals]
      /\ mem_in = orig
      /\ mem_out = [i \in 1..n |-> OldOutValue]
      /\ inplace \in BOOLEAN
      /\ bounds_ \in Splits(n, nb)
      /\ bpc = [b \in 1..nb |-> "pre"]
      /\ bcur = [b \in 1..nb |-> bounds_[b]]
      /\ bsum = [b \in 1..nb |-> neutral_element]
      /\ btot = [b \in 1..nb |-> neutral_element]
      /\ written = {}

\* up-sweep: block b adds its next input element to its sum
PreScanStep(b) ==
  /\ bpc[b] = "pre"
  /\ LET v == Plus(bsum[b], mem_in[bcur[b]]) IN
       /\ bsum' = [bsum EXCEPT ![b] = v]
       /\ bcur' = [bcur EXCEPT ![b] = @ + 1]
       /\ IF bcur[b] + 1 = bounds_[b + 1]
            THEN /\ bpc' = [bpc EXCEPT ![b] = "ready"]
                 /\ btot' = [btot EXCEPT ![b] = v]
            ELSE UNCHANGED <<bpc, btot>>
  /\ UNCHANGED <<mem_in, mem_out, inplace, orig, bounds_, written>>
  /\ UNCHANGED notp

RECURSIVE SumTotals(_, _)
SumTotals(tot, b) == IF b = 0 THEN neutral_element ELSE Plus(SumTotals(tot, b - 1), tot[b])

RECURSIVE SumInput(_, _)
SumInput(m, i) == IF i = 0 THEN neutral_element ELSE Plus(SumInput(m, i - 1), m[i])

\* an offset that also counts the block's own total
Offset_Inclusive(b) == SumTotals(btot, b)

\* an offset that is read again from the input range in front of the block
Offset_RereadInput(b) == SumInput(mem_in, bounds_[b] - 1)

\* down-sweep: the value block b starts from is the neutral element combined
\* with the totals of all blocks in front of it
Offset(b) == SumTotals(btot, b - 1)

\* block b starts its down-sweep once the totals in front of it are known
StartFinal(b) ==
  /\ bpc[b] = "ready"
  /\ \A b2 \in 1..(b - 1) : bpc[b2] # "pre"
  /\ bsum' = [bsum EXCEPT ![b] = Offset(b)]
  /\ bcur' = [bcur EXCEPT ![b] = bounds_[b]]
  /\ bpc' = [bpc EXCEPT ![b] = "final"]
  /\ UNCHANGED <<mem_in, mem_out, inplace, orig, bounds_, btot, written>>
  /\ UNCHANGED notp

\* down-sweep: block b reads its next input element and writes the output
FinalScanStep(b) ==
  /\ bpc[b] = "final"
  /\ LET i == bcur[b]
         v == Plus(bsum[b], mem_in[i])
     IN /\ bsum' = [bsum EXCEPT ![b] = v]
        /\ IF inplace
             THEN mem_in' = [mem_in EXCEPT ![i] = v] /\ UNCHANGED mem_out
             ELSE mem_out' = [mem_out EXCEPT ![i] = v] /\ UNCHANGED mem_in
        /\ written' = written \cup {i}
        /\ bcur' = [bcur EXCEPT ![b] = i + 1]
        /\ bpc' = [bpc EXCEPT ![b] = IF i + 1 = bounds_[b + 1] THEN "done" ELSE "final"]
  /\ UNCHANGED <<inplace, orig, bounds_, btot>>
  /\ UNCHANGED notp

PrefixStep ==
  \/ \E b \in Blocks : PreScanStep(b)
  \/ \E b \in Blocks : StartFinal(b)
  \/ \E b \in Blocks : FinalScanStep(b)

PrefixDone == \A b \in Blocks : bpc[b] = "done"

\* the input indices block b still has to read
ToRead(b) ==
  CASE bpc[b] = "pre"   -> bounds_[b]..(bounds_[b + 1] - 1)
    [] bpc[b] = "ready" -> bounds_[b]..(bounds_[b + 1] - 1)
    [] bpc[b] = "final" -> bcur[b]..(bounds_[b + 1] - 1)
    [] OTHER            -> {}

(***************************************************************************)
(*          QuotientGraph: cut hyperedges of the block pairs               *)
(***************************************************************************)

\* bounds of the cut-hyperedge model
CutNodes == 3
NumHes == 2
MaxMoves == 3
MaxRequest == 2

CNodes == 1..CutNodes
HEs == 1..NumHes

\* the pins of hyperedge he: hyperedge 1 holds every node, each next one a node less
Pins(he) == 1..Max(2, CutNodes - he + 1)

pinCountInPart(part, he, b) == Cardinality({v \in Pins(he) : part[v] = b})
connectivitySet(part, he) == {b \in QGBlocks : pinCountInPart(part, he, b) > 0}
connectivity(part, he) == Cardinality(connectivitySet(part, he))

\* the quotient-graph edge of two different blocks
BlockPairOf(a, b) == <<Min(a, b), Max(a, b)>>

\* the entries of edge q that are not consumed yet
ValidEntries(q) ==
  {cut_hes[q][i] : i \in (first_valid_entry[q] + 1)..Len(cut_hes[q])}

\* the sequences without repetition over S
OrdersOf(S) ==
  {f \in [1..Cardinality(S) -> S] : \A i, j \in 1..Cardinality(S) : f[i] = f[j] => i = j}

IdleCut ==
  /\ cpart = << >> /\ cut_hes = << >> /\ first_valid_entry = << >>
  /\ lastCall = "off" /\ lastNew = {} /\ nMoves = 0

\* initialize: every hyperedge with connectivity >= 2 is added to the edge of one
\* pair of its blocks; the vector of an edge holds its hyperedges in any order
InitCut ==
  /\ cpart \in [CNodes -> QGBlocks]
  /\ \E pairOf \in [HEs -> QGEdges] :
       /\ \A he \in HEs :
            IF connectivity(cpart, he) >= 2
              THEN pairOf[he][1] \in connectivitySet(cpart, he)
                   /\ pairOf[he][2] \in connectivitySet(cpart, he)
              ELSE pairOf[he] = <<0, 1>>
       /\ cut_hes \in [QGEdges -> UNION {OrdersOf(S) : S \in SUBSET HEs}]
       /\ \A q \in QGEdges :
            {cut_hes[q][i] : i \in 1..Len(cut_hes[q])} =
              {he \in HEs : connectivity(cpart, he) >= 2 /\ pairOf[he] = q}
  /\ first_valid_entry = [q \in QGEdges |-> 0]
  /\ lastCall = "initialize" /\ lastNew = {} /\ nMoves = 0

\* an addNewCutHyperedge that appends to the edge of one other block only
NewCutEdges_OnePair(part, he, block) ==
  LET others == connectivitySet(part, he) \ {block}
  IN  {BlockPairOf(b, block) : b \in {o \in others : \A o2 \in others : o <= o2}}

\* addNewCutHyperedge(he, block): the edges he is appended to, one for each
\* other block he has pins in
NewCutEdges(part, he, block) ==
  {BlockPairOf(b, block) : b \in connectivitySet(part, he) \ {block}}

\* the hyperedges of S in increasing order
RECURSIVE Ascending(_)
Ascending(S) ==
  IF S = {} THEN << >>
  ELSE LET m == CHOOSE x \in S : \A y \in S : x <= y
       IN  <<m>> \o Ascending(S \ {m})

\* changeNodePart(v, from, to): the pin counts of the incident hyperedges change
\* and addNewCutHyperedge(he, to) is called for every hyperedge whose pin
\* count in block to goes from 0 to 1
ChangeNodePart(v, to) ==
  /\ lastCall # "off" /\ nMoves < MaxMoves /\ cpart[v] # to
  /\ LET part2 == [cpart EXCEPT ![v] = to]
         newHes == {he \in HEs : v \in Pins(he) /\ pinCountInPart(cpart, he, to) = 0}
     IN /\ cpart' = part2
        /\ cut_hes' = [q \in QGEdges |->
              cut_hes[q] \o Ascending({he \in newHes : q \in NewCutEdges(part2, he, to)})]
        /\ lastNew' = {<<he, to>> : he \in newHes}
  /\ lastCall' = "changeNodePart"
  /\ nMoves' = nMoves + 1
  /\ UNCHANGED first_valid_entry
  /\ UNCHANGED notc

\* pop entries of edge q until n hyperedges that are still cut between the two
\* blocks were served or the vector is exhausted: the new first_valid_entry
RECURSIVE ServeFrom(_, _, _)
ServeFrom(q, fve, n) ==
  IF n = 0 \/ fve >= Len(cut_hes[q]) THEN fve
  ELSE LET he == cut_hes[q][fve + 1]
       IN  IF pinCountInPart(cpart, he, q[1]) > 0 /\ pinCountInPart(cpart, he, q[2]) > 0
             THEN ServeFrom(q, fve + 1, n - 1)
             ELSE ServeFrom(q, fve + 1, n)

\* requestCutHyperedges(search on q, max_num_edges)
RequestCutHyperedges(q, max_num_edges) ==
  /\ lastCall # "off" /\ first_valid_entry[q] < Len(cut_hes[q])
  /\ first_valid_entry' = [first_valid_entry EXCEPT ![q] = ServeFrom(q, @, max_num_edges)]
  /\ lastCall' = "requestCutHyperedges"
  /\ lastNew' = {}
  /\ UNCHANGED <<cpart, cut_hes, nMoves>>
  /\ UNCHANGED notc

CutStep ==
  \/ \E v \in CNodes, to \in QGBlocks : ChangeNodePart(v, to)
  \/ \E q \in QGEdges, n \in 1..MaxRequest : RequestCutHyperedges(q, n)

\* the edges between blocks of he that hold he in their part not consumed yet
HoldingEdges(he) ==
  {q \in QGEdges : /\ he \in ValidEntries(q)
                    /\ q[1] \in connectivitySet(cpart, he)
                    /\ q[2] \in connectivitySet(cpart, he)}

(***************************************************************************)
(*   DeterministicLabelPropagationRefiner (deterministic_label_propagation.cpp) *)
(***************************************************************************)

\* bounds of the label propagation model
LPNodes == 4
LPK == 3
LPNumBuckets == 2
LPMaxIterations == 2
LPMaxPartWeight == 2
LPMaxEdgeWeight == 2
LPActivationThreshold == 3

\* Move::from of an invalidated move, and the "no solution" position
kInvalidPartition == -1
invalid_pos == -1

LPNodeSet == 1..LPNodes
LPBlocks == 0..(LPK - 1)

\* the hypergraph the refiner runs on: three hyperedges with two pins and one
\* with three pins
LPPins == <<{1, 2}, {1, 3}, {2, 4}, {1, 2, 3}>>
LPHes == 1..Len(LPPins)
incidentEdges(u) == {he \in LPHes : u \in LPPins[he]}
edgeSize(he) == Cardinality(LPPins[he])
nodeWeight(u) == 1

RECURSIVE SumFn(_, _)
SumFn(f, S) ==
  IF S = {} THEN 0
  ELSE LET x == CHOOSE y \in S : TRUE IN f[x] + SumFn(f, S \ {x})

partWeight(part, b) == SumFn([u \in LPNodeSet |-> nodeWeight(u)], {u \in LPNodeSet : part[u] = b})
PinCountsOf(part) ==
  [he \in LPHes |-> [b \in LPBlocks |-> Cardinality({u \in LPPins[he] : part[u] = b})]]

\* the km1 objective: sum of w(e) * (connectivity(e) - 1)
Km1(part) ==
  SumFn([he \in LPHes |->
           edge_weight[he] * (Cardinality({part[u] : u \in LPPins[he]}) - 1)], LPHes)

\* calculateAndSaveBestMove: the move of u to the block of highest positive gain
\* (the lowest block id among equal gains), computed on the unmoved partition
MoveGain(part, u, to) ==
  LET pc == PinCountsOf(part) IN
  SumFn([he \in LPHes |->
           edge_weight[he] * ((IF pc[he][part[u]] = 1 THEN 1 ELSE 0)
                              - (IF pc[he][to] = 0 THEN 1 ELSE 0))],
        incidentEdges(u))

calculateAndSaveBestMove(part, u) ==
  LET cands == {to \in LPBlocks \ {part[u]} : MoveGain(part, u, to) > 0}
      best == CHOOSE to \in cands : \A t2 \in cands :
                \/ MoveGain(part, u, to) > MoveGain(part, u, t2)
                \/ MoveGain(part, u, to) = MoveGain(part, u, t2) /\ to <= t2
  IN  IF cands = {} THEN {}
      ELSE {[node |-> u, from |-> part[u], to |-> best, gain |-> MoveGain(part, u, best)]}

ComputedMoves(part, nodes) == UNION {calculateAndSaveBestMove(part, u) : u \in nodes}

\* a comparator that orders by gain only
MoveBefore_GainOnly(m1, m2) == m1.gain > m2.gain

\* the comparator of the sorts: gain descending, node id ascending
MoveBefore(m1, m2) == m1.gain > m2.gain \/ (m1.gain = m2.gain /\ m1.node < m2.node)

\* sorting a range with the comparator: elements the comparator does not order
\* stay in the order in which the range held them
InsertMove(s, m) ==
  LET later == {i \in 1..Len(s) : MoveBefore(m, s[i])}
      k == IF later = {} THEN Len(s) + 1 ELSE CHOOSE i \in later : \A j \in later : i <= j
  IN  SubSeq(s, 1, k - 1) \o <<m>> \o SubSeq(s, k, Len(s))

RECURSIVE SortMoves(_)
SortMoves(s) ==
  IF s = << >> THEN << >>
  ELSE InsertMove(SortMoves(SubSeq(s, 1, Len(s) - 1)), s[Len(s)])

\* the moves of set M in increasing order of their node
RECURSIVE ByNode(_)
ByNode(M) ==
  IF M = {} THEN << >>
  ELSE LET m == CHOOSE x \in M : \A y \in M : x.node <= y.node
       IN  <<m>> \o ByNode(M \ {m})

\* ---- strategy A: applyMovesByMaximalPrefixesInBlockPairs ----
index(b1, b2) == b1 * LPK + b2
get_key(m) == index(m.from, m.to)
max_key == LPK * LPK

\* parallel::counting_sort by direction, followed by the sort of each bucket
RECURSIVE SortedBuckets(_, _)
SortedBuckets(ms, key) ==
  IF key = max_key THEN << >>
  ELSE SortMoves(SelectSeq(ms, LAMBDA m : get_key(m) = key)) \o SortedBuckets(ms, key + 1)

positions(ms) ==
  [key \in 0..max_key |-> Cardinality({i \in 1..Len(ms) : get_key(ms[i]) < key})]

has_moves(ms, p1, p2) == positions(ms)[index(p1, p2) + 1] # positions(ms)[index(p1, p2)]
involvements_One(ms, b) == 1

involvements(ms, b) == Cardinality({p \in LPBlocks \ {b} : has_moves(ms, p, b)})

relevant_block_pairs(ms) ==
  {bp \in LPBlocks \X LPBlocks :
     bp[1] < bp[2] /\ (has_moves(ms, bp[1], bp[2]) \/ has_moves(ms, bp[2], bp[1]))}

\* cumulative_node_weights[pos] of the sorted moves sm (pos counts from 0): the
\* prefix sum of the node weights inside the bucket of pos
cumulative_node_weights(sm, pos) ==
  LET begin == positions(sm)[get_key(sm[pos + 1])]
  IN  SumFn([i \in begin..pos |-> nodeWeight(sm[i + 1].node)], begin..pos)

\* HypernodeWeight x divided by a size_t d: x is converted to the unsigned 64-bit
\* type, divided, and the quotient converted back to the signed 32-bit type
QuotientLimb(x, d, n) ==
  LET l1 == 65535
      r1 == l1 % d
      c2 == r1 * 65536 + 65535
      r2 == c2 % d
      c3 == r2 * 65536 + 65535
      r3 == c3 % d
      c4 == r3 * 65536 + (65536 + x)
  IN  IF n = 3 THEN c3 \div d ELSE c4 \div d

DivBySizeT(x, d) ==
  IF x >= 0 THEN x \div d
  ELSE LET q3 == QuotientLimb(x, d, 3)
           q4 == QuotientLimb(x, d, 4)
       IN  IF q3 >= 32768 THEN (q3 - 65536) * 65536 + q4 ELSE q3 * 65536 + q4

\* findBestPrefixesSequentially
RECURSIVE findBestPrefixesSequentially(_, _, _, _, _, _, _)
findBestPrefixesSequentially(sm, p1_begin, p1_end, p2_begin, p2_end, lb_p1, ub_p2) ==
  LET a == IF p1_end - 1 = p1_begin - 1 THEN 0 ELSE cumulative_node_weights(sm, p1_end - 1)
      b == IF p2_end - 1 = p2_begin - 1 THEN 0 ELSE cumulative_node_weights(sm, p2_end - 1)
      balance == a - b
  IN  IF lb_p1 <= balance /\ balance <= ub_p2 THEN <<p1_end, p2_end>>
      ELSE IF balance < 0
        THEN IF p2_end = p2_begin THEN <<invalid_pos, invalid_pos>>
             ELSE findBestPrefixesSequentially(sm, p1_begin, p1_end, p2_begin, p2_end - 1, lb_p1, ub_p2)
        ELSE IF p1_end = p1_begin THEN <<invalid_pos, invalid_pos>>
             ELSE findBestPrefixesSequentially(sm, p1_begin, p1_end - 1, p2_begin, p2_end, lb_p1, ub_p2)

\* the prefix ends of block pair (p1, p2): lines 350-371
best_prefix(part, sm, p1, p2) ==
  LET budget_p1 == LPMaxPartWeight - partWeight(part, p1)
      budget_p2 == LPMaxPartWeight - partWeight(part, p2)
      lb_p1 == -DivBySizeT(budget_p1, Max(1, involvements(sm, p1)))
      ub_p2 == DivBySizeT(budget_p2, Max(1, involvements(sm, p2)))
      p1_begin == positions(sm)[index(p1, p2)]
      p1_end == positions(sm)[index(p1, p2) + 1]
      p2_begin == positions(sm)[index(p2, p1)]
      p2_end == positions(sm)[index(p2, p1) + 1]
      bp == findBestPrefixesSequentially(sm, p1_begin, p1_end, p2_begin, p2_end, lb_p1, ub_p2)
  IN  IF bp[1] = invalid_pos THEN <<p1_begin, p2_begin>> ELSE bp

\* swap_prefix[index(p1,p2)]: the first position of direction p1 -> p2 that is not applied
SwapPrefix(part, sm) ==
  [key \in 0..(max_key - 1) |->
     LET p1 == key \div LPK
         p2 == key % LPK
     IN  IF <<p1, p2>> \in relevant_block_pairs(sm) THEN best_prefix(part, sm, p1, p2)[1]
         ELSE IF <<p2, p1>> \in relevant_block_pairs(sm) THEN best_prefix(part, sm, p2, p1)[2]
         ELSE 0]

InPrefix(sm, sp, pos) == pos < sp[get_key(sm[pos + 1])]

\* ---- strategy B1: applyMovesSortedByGainAndRevertUnbalanced ----
isValid(m) == m.from # kInvalidPartition

\* aggregatePartWeightDeltas: what the moves ms add to the weight of every block
aggregatePartWeightDeltas(ms) ==
  [b \in LPBlocks |->
     SumFn([i \in 1..Len(ms) |->
              (IF ms[i].to = b THEN nodeWeight(ms[i].node) ELSE 0)
              - (IF ms[i].from = b THEN nodeWeight(ms[i].node) ELSE 0)], 1..Len(ms))]

\* aggregatePartWeightDeltas plus the current part weights (lines 208-211)
AggregatedPartWeights(part, ms) ==
  [b \in LPBlocks |-> partWeight(part, b) + aggregatePartWeightDeltas(ms)[b]]

\* revert_move (lines 224-232) on the move at position j (counted from 1)
revert_move(s, j) ==
  LET m == s.mv[j]
      w == nodeWeight(m.node)
      pw2 == [s.pw EXCEPT ![m.to] = @ - w, ![m.from] = @ + w]
  IN  [s EXCEPT !.pw = pw2,
                !.mv = [s.mv EXCEPT ![j] = [m EXCEPT !.from = kInvalidPartition]],
                !.nob = IF pw2[m.to] <= LPMaxPartWeight THEN s.nob - 1 ELSE s.nob]

\* first pass (lines 234-240)
RECURSIVE B1FirstPass(_, _)
B1FirstPass(s, j) ==
  IF s.nob > 0 /\ j > 0
    THEN LET m == s.mv[j] IN
         IF /\ s.pw[m.to] > LPMaxPartWeight
            /\ s.pw[m.from] + nodeWeight(m.node) <= LPMaxPartWeight
           THEN B1FirstPass(revert_move(s, j), j - 1)
           ELSE B1FirstPass(s, j - 1)
    ELSE s

\* extra passes (lines 249-267); oob records a read of moves[j - 1] with j = 0
RECURSIVE B1ExtraPass(_, _, _)
B1ExtraPass(s, j, last_valid_move) ==
  IF s.nob = 0 THEN s
  ELSE LET j1 == IF j = 0 THEN last_valid_move ELSE j
           lv1 == IF j = 0 THEN 0 ELSE last_valid_move
       IN  IF j1 = 0 THEN [s EXCEPT !.oob = TRUE]
           ELSE LET m == s.mv[j1]
                    rev == isValid(m) /\ s.pw[m.to] > LPMaxPartWeight
                    s1 == IF rev
                            THEN revert_move(
                                   [s EXCEPT !.nob =
                                      IF /\ s.pw[m.from] + nodeWeight(m.node) > LPMaxPartWeight
                                         /\ s.pw[m.from] <= LPMaxPartWeight
                                        THEN s.nob + 1 ELSE s.nob], j1)
                            ELSE s
                    lv2 == IF lv1 = 0 /\ isValid(s1.mv[j1]) THEN j1 ELSE lv1
                IN  B1ExtraPass(s1, j1 - 1, lv2)

\* lines 201-267: the sorted moves with the reverted ones invalidated
B1Select(part, ms) ==
  LET sorted == SortMoves(ms)
      pw == AggregatedPartWeights(part, sorted)
      s0 == [mv |-> sorted, pw |-> pw, oob |-> FALSE,
             nob |-> Cardinality({b \in LPBlocks : pw[b] > LPMaxPartWeight})]
      s1 == B1FirstPass(s0, Len(sorted))
  IN  IF s1.nob > 0 THEN B1ExtraPass(s1, Len(sorted), 0) ELSE s1

\* ---- the sequential reference of one sub-round ----
ApplyAll(part, M) ==
  [u \in LPNodeSet |->
     IF \E m \in M : m.node = u THEN (CHOOSE m \in M : m.node = u).to ELSE part[u]]

\* the nodes performMoveWithAttributedGain activates for the moves M
Activated(M) ==
  UNION {LPPins[he] : he \in {e \in LPHes : /\ edgeSize(e) <= LPActivationThreshold
                                           /\ \E m \in M : e \in incidentEdges(m.node)}}

SeqRange(s) == {s[i] : i \in 1..Len(s)}

RefSubRound(part, nodes, act) ==
  LET M == ComputedMoves(part, nodes)
      sm == SortedBuckets(ByNode(M), 0)
      sp == SwapPrefix(part, sm)
      sel == {sm[i] : i \in {p \in 1..Len(sm) : InPrefix(sm, sp, p - 1)}}
      rest == M \ sel
      gA == Km1(part) - Km1(ApplyAll(part, sel))
      partA == IF gA < 0 THEN part ELSE ApplyAll(part, sel)
      impA == IF gA < 0 THEN 0 ELSE gA
      runB == impA > 0 /\ rest # {}
      b1 == B1Select(partA, ByNode(rest))
      valid == {m \in SeqRange(b1.mv) : isValid(m)}
      gB == Km1(partA) - Km1(ApplyAll(partA, valid))
      partB == IF runB /\ gB >= 0 THEN ApplyAll(partA, valid) ELSE partA
      impB == IF runB /\ gB >= 0 THEN gB ELSE 0
  IN  [part |-> partB,
       improvement |-> impA + impB,
       reverted |-> gA < 0,
       num_moves |-> Cardinality(M),
       active |-> act \cup Activated(sel) \cup (IF runB THEN Activated(valid) ELSE {})]

\* ---- refineImpl ----
IdleLP ==
  /\ edge_weight = << >> /\ bucket = << >> /\ part_id = << >> /\ pin_count = << >>
  /\ moves = << >> /\ sorted_moves = << >> /\ swap_prefix = << >> /\ tasks = << >>
  /\ my_gain = 0 /\ lpc = "off" /\ iter = 0 /\ sub_round = 0 /\ num_sub_rounds = 0
  /\ round_nodes = {} /\ active_nodes = {} /\ increase_sub_rounds = FALSE
  /\ num_moves = 0 /\ num_moves_in_sub_round = 0 /\ round_improvement = 0
  /\ overall_improvement = 0 /\ sub_round_improvement = 0 /\ reverted = FALSE
  /\ start_part = << >> /\ start_active = {} /\ sub_nodes = {} /\ interleaved = FALSE

\* the state at the entry of refineImpl: a partition within the maximum part
\* weights, the edge weights, and one of two groupings of the nodes into the
\* buckets of the permutation (the outcome of the seed)
InitLP ==
  /\ edge_weight \in [LPHes -> 1..LPMaxEdgeWeight]
  /\ bucket \in {[u \in LPNodeSet |-> u % LPNumBuckets],
                 [u \in LPNodeSet |-> ((u + 1) \div 2) % LPNumBuckets]}
  /\ part_id \in {p \in [LPNodeSet -> LPBlocks] :
                    \A b \in LPBlocks : partWeight(p, b) <= LPMaxPartWeight}
  /\ pin_count = PinCountsOf(part_id)
  /\ moves = << >> /\ sorted_moves = << >> /\ swap_prefix = << >> /\ tasks = << >>
  /\ my_gain = 0 /\ lpc = "calc" /\ iter = 0 /\ sub_round = 0 /\ num_sub_rounds = 1
  /\ round_nodes = LPNodeSet /\ active_nodes = {} /\ increase_sub_rounds = FALSE
  /\ num_moves = 0 /\ num_moves_in_sub_round = 0 /\ round_improvement = 0
  /\ overall_improvement = 0 /\ sub_round_improvement = 0 /\ reverted = FALSE
  /\ start_part = part_id /\ start_active = {} /\ sub_nodes = {} /\ interleaved = FALSE

\* parallel::chunking::idiv_ceil and bounds (lines 68, 73-75)
idiv_ceil(a, b) == (a + b - 1) \div b
SubRoundNodes ==
  LET num_buckets_per_sub_round == idiv_ceil(LPNumBuckets, num_sub_rounds)
      first_bucket == Min(LPNumBuckets, sub_round * num_buckets_per_sub_round)
      last_bucket == Min(LPNumBuckets, (sub_round + 1) * num_buckets_per_sub_round)
  IN  {u \in round_nodes : first_bucket <= bucket[u] /\ bucket[u] < last_bucket}

\* lines 76-90: the moves of the sub-round are computed in parallel on the
\* unmoved partition; the buffer holds them in any order
LPCalculateMoves ==
  /\ lpc = "calc"
  /\ LET M == ComputedMoves(part_id, SubRoundNodes) IN
       /\ moves' \in OrdersOf(M)
       /\ num_moves_in_sub_round' = Cardinality(M)
       /\ lpc' = IF M = {} THEN "sub_end" ELSE "strategy_a"
  /\ start_part' = part_id /\ start_active' = active_nodes /\ sub_nodes' = SubRoundNodes
  /\ sub_round_improvement' = 0 /\ reverted' = FALSE /\ interleaved' = FALSE
  /\ tasks' = << >> /\ my_gain' = 0
  /\ UNCHANGED <<edge_weight, bucket, part_id, pin_count, sorted_moves, swap_prefix,
                 iter, sub_round, num_sub_rounds, round_nodes, active_nodes,
                 increase_sub_rounds, num_moves, round_improvement, overall_improvement>>
  /\ UNCHANGED notl

\* the parallel loop of applyMovesIf over the positions for which the predicate holds
TasksOf(ms, chosen) ==
  [i \in 1..Len(ms) |->
     [m |-> ms[i], st |-> IF i \in chosen THEN "wait" ELSE "skip", rem |-> {}]]

SwapFromTo(m) == [m EXCEPT !.from = m.to, !.to = m.from]

\* lines 292-378: strategy A up to the start of its applyMovesIf; the moves that
\* are not in a prefix are pushed back to the buffer, in any order
LPStrategyA ==
  /\ lpc = "strategy_a"
  /\ LET sm == SortedBuckets(moves, 0)
         sp == SwapPrefix(part_id, sm)
     IN /\ sorted_moves' = sm
        /\ swap_prefix' = sp
        /\ moves' \in OrdersOf({sm[i] : i \in {p \in 1..Len(sm) : ~InPrefix(sm, sp, p - 1)}})
        /\ tasks' = TasksOf(sm, {i \in 1..Len(sm) : InPrefix(sm, sp, i - 1)})
  /\ my_gain' = 0
  /\ lpc' = "a_apply"
  /\ UNCHANGED <<edge_weight, bucket, part_id, pin_count, iter, sub_round,
                 num_sub_rounds, round_nodes, active_nodes, increase_sub_rounds,
                 num_moves, num_moves_in_sub_round, round_improvement,
                 overall_improvement, sub_round_improvement, reverted, start_part,
                 start_active, sub_nodes, interleaved>>
  /\ UNCHANGED notl

Applying == lpc \in {"a_apply", "a_revert", "b_apply", "b_revert"}

\* performMoveWithAttributedGain, changeNodePart: the node gets its new block
LPApplyBegin(pos) ==
  /\ Applying /\ pos \in 1..Len(tasks) /\ tasks[pos].st = "wait"
  /\ LET m == tasks[pos].m IN
       /\ part_id' = [part_id EXCEPT ![m.node] = m.to]
       /\ tasks' = [tasks EXCEPT ![pos].st = "run", ![pos].rem = incidentEdges(m.node)]
  /\ interleaved' = (interleaved \/ \E p \in 1..Len(tasks) : tasks[p].st = "run")
  /\ UNCHANGED <<edge_weight, bucket, pin_count, moves, sorted_moves, swap_prefix,
                 my_gain, lpc, iter, sub_round, num_sub_rounds, round_nodes,
                 active_nodes, increase_sub_rounds, num_moves, num_moves_in_sub_round,
                 round_improvement, overall_improvement, sub_round_improvement,
                 reverted, start_part, start_active, sub_nodes>>
  /\ UNCHANGED notl

\* the km1 gain attributed to one synchronized update of a hyperedge
AttributedGain_BenefitOnly(he, pin_count_in_from_part_after, pin_count_in_to_part_after) ==
  IF pin_count_in_from_part_after = 0 THEN edge_weight[he] ELSE 0

AttributedGain(he, pin_count_in_from_part_after, pin_count_in_to_part_after) ==
  (IF pin_count_in_from_part_after = 0 THEN edge_weight[he] ELSE 0)
  - (IF pin_count_in_to_part_after = 1 THEN edge_weight[he] ELSE 0)

\* changeNodePart: the pin counts of the next incident hyperedge are updated and
\* the gain is attributed; after the last hyperedge the neighbours are activated
LPApplyEdge(pos) ==
  /\ Applying /\ pos \in 1..Len(tasks) /\ tasks[pos].st = "run"
  /\ LET m == tasks[pos].m
         he == CHOOSE e \in tasks[pos].rem : \A e2 \in tasks[pos].rem : e <= e2
         from_after == pin_count[he][m.from] - 1
         to_after == pin_count[he][m.to] + 1
         last == tasks[pos].rem = {he}
     IN /\ pin_count' = [pin_count EXCEPT ![he][m.from] = from_after, ![he][m.to] = to_after]
        /\ my_gain' = my_gain + AttributedGain(he, from_after, to_after)
        /\ tasks' = [tasks EXCEPT ![pos].rem = @ \ {he},
                                  ![pos].st = IF last THEN "done" ELSE "run"]
        /\ active_nodes' = IF last THEN active_nodes \cup Activated({m}) ELSE active_nodes
  /\ UNCHANGED <<edge_weight, bucket, part_id, moves, sorted_moves, swap_prefix,
                 lpc, iter, sub_round, num_sub_rounds, round_nodes,
                 increase_sub_rounds, num_moves, num_moves_in_sub_round,
                 round_improvement, overall_improvement, sub_round_improvement,
                 reverted, start_part, start_active, sub_nodes, interleaved>>
  /\ UNCHANGED notl

\* applyMovesIf returns the sum of the attributed gains; the strategy that called
\* it goes on: lines 381-397 of strategy A and 95-103 of refineImpl, lines 270-287
\* of strategy B1
LPApplyMovesIfReturns ==
  /\ Applying /\ \A p \in 1..Len(tasks) : tasks[p].st \in {"skip", "done"}
  /\ LET revertTasks ==
           [i \in 1..Len(tasks) |->
              IF tasks[i].st = "done"
                THEN [m |-> SwapFromTo(tasks[i].m), st |-> "wait", rem |-> {}]
                ELSE tasks[i]]
         afterA(rev) ==
           /\ sub_round_improvement' = my_gain
           /\ reverted' = rev
           /\ increase_sub_rounds' = (increase_sub_rounds \/ rev)
           /\ lpc' = IF my_gain > 0 /\ Len(moves) > 0 THEN "strategy_b1" ELSE "sub_end"
           /\ UNCHANGED <<tasks, sorted_moves, moves>>
     IN CASE lpc = "a_apply" ->
               IF my_gain < 0
                 THEN /\ tasks' = revertTasks
                      /\ sorted_moves' = [i \in 1..Len(tasks) |-> revertTasks[i].m]
                      /\ lpc' = "a_revert"
                      /\ UNCHANGED <<sub_round_improvement, reverted,
                                     increase_sub_rounds, moves>>
                 ELSE afterA(FALSE)
          [] lpc = "a_revert" -> afterA(TRUE)
          [] lpc = "b_apply" ->
               IF my_gain < 0
                 THEN /\ tasks' = revertTasks
                      /\ moves' = [i \in 1..Len(tasks) |-> revertTasks[i].m]
                      /\ lpc' = "b_revert"
                      /\ UNCHANGED <<sub_round_improvement, reverted,
                                     increase_sub_rounds, sorted_moves>>
                 ELSE /\ sub_round_improvement' = sub_round_improvement + my_gain
                      /\ lpc' = "sub_end"
                      /\ UNCHANGED <<tasks, sorted_moves, moves, reverted,
                                     increase_sub_rounds>>
          [] lpc = "b_revert" ->
               /\ sub_round_improvement' = sub_round_improvement + my_gain
               /\ lpc' = "sub_end"
               /\ UNCHANGED <<tasks, sorted_moves, moves, reverted, increase_sub_rounds>>
  /\ UNCHANGED <<edge_weight, bucket, part_id, pin_count, swap_prefix, my_gain,
                 iter, sub_round, num_sub_rounds, round_nodes, active_nodes,
                 num_moves, num_moves_in_sub_round, round_improvement,
                 overall_improvement, start_part, start_active, sub_nodes, interleaved>>
  /\ UNCHANGED notl

\* lines 201-270: strategy B1 up to the start of its applyMovesIf
LPStrategyB1 ==
  /\ lpc = "strategy_b1"
  /\ LET s == B1Select(part_id, moves) IN
       /\ ~s.oob
       /\ moves' = s.mv
       /\ tasks' = TasksOf(s.mv, {i \in 1..Len(s.mv) : isValid(s.mv[i])})
  /\ my_gain' = 0
  /\ lpc' = "b_apply"
  /\ UNCHANGED <<edge_weight, bucket, part_id, pin_count, sorted_moves, swap_prefix,
                 iter, sub_round, num_sub_rounds, round_nodes, active_nodes,
                 increase_sub_rounds, num_moves, num_moves_in_sub_round,
                 round_improvement, overall_improvement, sub_round_improvement,
                 reverted, start_part, start_active, sub_nodes, interleaved>>
  /\ UNCHANGED notl

\* lines 105-118: the end of a sub-round, and of the iteration after the last one
LPEndSubRound ==
  /\ lpc = "sub_end"
  /\ LET ri == round_improvement + sub_round_improvement
         nm == num_moves + num_moves_in_sub_round
     IN IF sub_round + 1 < num_sub_rounds
          THEN /\ sub_round' = sub_round + 1
               /\ round_improvement' = ri
               /\ num_moves' = nm
               /\ lpc' = "calc"
               /\ UNCHANGED <<iter, num_sub_rounds, round_nodes, active_nodes,
                              increase_sub_rounds, overall_improvement>>
          ELSE /\ overall_improvement' = overall_improvement + ri
               /\ num_sub_rounds' = IF increase_sub_rounds
                                      THEN Min(LPNumBuckets, num_sub_rounds * 2)
                                      ELSE num_sub_rounds
               /\ iter' = iter + 1
               /\ IF nm = 0 \/ iter + 1 >= LPMaxIterations
                    THEN /\ lpc' = "done"
                         /\ UNCHANGED <<sub_round, round_improvement, num_moves,
                                        round_nodes, active_nodes, increase_sub_rounds>>
                    ELSE /\ lpc' = "calc"
                         /\ sub_round' = 0
                         /\ round_improvement' = 0
                         /\ num_moves' = 0
                         /\ increase_sub_rounds' = FALSE
                         /\ round_nodes' = IF active_nodes = {} THEN LPNodeSet
                                           ELSE active_nodes
                         /\ active_nodes' = {}
  /\ UNCHANGED <<edge_weight, bucket, part_id, pin_count, moves, sorted_moves,
                 swap_prefix, tasks, my_gain, num_moves_in_sub_round,
                 sub_round_improvement, reverted, start_part, start_active,
                 sub_nodes, interleaved>>
  /\ UNCHANGED notl

LPStep ==
  \/ LPCalculateMoves
  \/ LPStrategyA
  \/ \E pos \in 1..LPNodes : LPApplyBegin(pos)
  \/ \E pos \in 1..LPNodes : LPApplyEdge(pos)
  \/ LPApplyMovesIfReturns
  \/ LPStrategyB1
  \/ LPEndSubRound

(***************************************************************************)
(*            LocalizedKWayFM  (localized_kway_fm_core.h)                  *)
(***************************************************************************)

\* bounds of the FM model
FMNodes == 3
FMK == 2
FMThreads == 2
FMMaxSearches == 3
FMNumSeedNodes == 2
FMMaxPartWeight == 2
FMMaxPartWeightSkew == 1
hyperedge_size_threshold == 4

\* std::numeric_limits<HyperedgeWeight>::max()
max_penalty == 2147483647

\* the states of a vertex in the node tracker besides "active in search s"
INACTIVE == 0
deactivatedNodeMarker == 1

\* WorkContainer::current
current == 2

\* context.refinement.fm.algorithm: findMovesLocalized is the multitry search
fm_algorithm == "fm_multitry"

FMNodeSet == 1..FMNodes
FMBlocks == 0..(FMK - 1)
FMThreadSet == 1..FMThreads

\* the pins of the hyperedges; every hyperedge has weight 1
FMPins == <<{1, 2}, {2, 3}, {1, 2, 3}>>
FMHes == 1..Len(FMPins)
fmEdgeWeight(e) == 1
fmEdgeSize(e) == Cardinality(FMPins[e])
fmIncidentEdges(u) == {e \in FMHes : u \in FMPins[e]}

\* ---- PartitionedHypergraph and gain cache, as functions of the partition ----
fmPinCountInPart(part, e, p) == Cardinality({v \in FMPins[e] : part[v] = p})
fmPartWeight(part, p) ==
  SumFn([v \in FMNodeSet |-> nodeWeight(v)], {v \in FMNodeSet : part[v] = p})
fmKm1(part) ==
  SumFn([e \in FMHes |->
           fmEdgeWeight(e) * (Cardinality({part[v] : v \in FMPins[e]}) - 1)], FMHes)
moveFromBenefit(part, u) ==
  SumFn([e \in FMHes |-> fmEdgeWeight(e)],
        {e \in fmIncidentEdges(u) : fmPinCountInPart(part, e, part[u]) = 1})
moveToPenalty(part, u, p) ==
  SumFn([e \in FMHes |-> fmEdgeWeight(e)],
        {e \in fmIncidentEdges(u) : fmPinCountInPart(part, e, p) = 0})
km1Delta(he, edge_weight_, edge_size, pin_count_in_from_part_after, pin_count_in_to_part_after) ==
  (IF pin_count_in_to_part_after = 1 THEN edge_weight_ ELSE 0)
  + (IF pin_count_in_from_part_after = 0 THEN 0 - edge_weight_ ELSE 0)
heaviestPartAndWeight(part) ==
  CHOOSE w \in {fmPartWeight(part, i) : i \in FMBlocks} :
    \A i \in FMBlocks : fmPartWeight(part, i) <= w

\* ---- NodeTracker ----
isSearchInactive_OrDeactivated(search_id) ==
  search_id \in {INACTIVE, deactivatedNodeMarker}

isSearchInactive(search_id) == search_id = INACTIVE

\* ---- vertex priority queues: a function from the contained vertices to keys ----
EmptyPQ == [x \in {} |-> 0]
pqInsert(pq, v, key) == [x \in (DOMAIN pq) \cup {v} |-> IF x = v THEN key ELSE pq[x]]
pqRemove(pq, v) == [x \in (DOMAIN pq) \ {v} |-> pq[x]]
topKey(pq) == CHOOSE key \in {pq[x] : x \in DOMAIN pq} : \A x \in DOMAIN pq : pq[x] <= key
PQNodes(pqs) == UNION {DOMAIN pqs[i] : i \in FMBlocks}

\* the blocks with a non-empty vertex PQ: the blocks the block PQ has to hold
blockPQ(pqs) == {i \in FMBlocks : DOMAIN pqs[i] # {}}

updateBlock_KeepEmpty(bpq, pqs, i) ==
  IF DOMAIN pqs[i] # {} THEN pqInsert(bpq, i, topKey(pqs[i])) ELSE bpq

\* updateBlock on the block PQ bpq (a function from the contained blocks to keys)
updateBlock(bpq, pqs, i) ==
  IF DOMAIN pqs[i] # {} THEN pqInsert(bpq, i, topKey(pqs[i]))
  ELSE IF i \in DOMAIN bpq THEN pqRemove(bpq, i)
  ELSE bpq

\* updateBlock for every block of B
RECURSIVE updateBlockSet(_, _, _)
updateBlockSet(bpq, pqs, B) ==
  IF B = {} THEN bpq
  ELSE LET i == CHOOSE x \in B : \A y \in B : x <= y
       IN updateBlockSet(updateBlock(bpq, pqs, i), pqs, B \ {i})

\* updateBlocks(phg, moved_from) with the vertices dedup in the updateDeduplicator
updateBlocks(bpq, pqs, part, moved_from, dedup) ==
  IF moved_from = kInvalidPartition \/ Cardinality(dedup) >= FMK
  THEN updateBlockSet(bpq, pqs, FMBlocks)
  ELSE updateBlockSet(bpq, pqs, {moved_from} \cup {part[v] : v \in dedup})

NoMove == [node |-> 0, from |-> kInvalidPartition, to |-> kInvalidPartition, gain |-> 0]

\* the LocalizedKWayFM object of a thread together with the locals of its call
NewSearch ==
  [pc |-> "idle", thisSearch |-> 0, result |-> "none",
   seedVertices |-> {}, pushes |-> 0, moves |-> 0,
   vertexPQs |-> [i \in FMBlocks |-> EmptyPQ],
   blockPQ |-> EmptyPQ,
   m |-> NoMove, localMoves |-> << >>, localMoveIDs |-> << >>,
   part_ids_delta |-> [v \in FMNodeSet |-> kInvalidPartition],
   validHyperedges |-> {},
   estimatedImprovement |-> 0, bestImprovement |-> 0, bestImprovementIndex |-> 0,
   numSteps |-> 0,
   i |-> 0, appliedImprovement |-> 0, appliedBest |-> 0, bestIndex |-> 0,
   toRelease |-> {},
   insertedIDs |-> << >>, revertedIDs |-> << >>, startPart |-> << >>]

IdleFM ==
  /\ perform_moves_global = FALSE /\ allow_zero_gain_moves = FALSE
  /\ max_part_weights = << >> /\ retriesInCall = << >>
  /\ partID = << >> /\ searchOfNode = << >> /\ highestActiveSearchID = 0
  /\ refinementNodes = {} /\ timestamps = << >> /\ fruitlessSeed = {}
  /\ moveTracker = << >> /\ fm = << >>

\* the maximum block weights of a run: the same for every block, or a larger
\* one for block 0 and smaller ones for the other blocks
MaxPartWeightChoices ==
  {[i \in FMBlocks |-> FMMaxPartWeight],
   [i \in FMBlocks |-> IF i = 0 THEN FMMaxPartWeight + FMMaxPartWeightSkew
                                ELSE FMMaxPartWeight - FMMaxPartWeightSkew]}

\* the state at the entry of the refiner: a partition within the maximum part
\* weights, every node released and pushed into the work container
InitFM ==
  /\ perform_moves_global \in BOOLEAN
  /\ allow_zero_gain_moves \in BOOLEAN
  /\ max_part_weights \in MaxPartWeightChoices
  /\ retriesInCall = [t \in FMThreadSet |-> 0]
  /\ partID \in {p \in [FMNodeSet -> FMBlocks] :
                   \A i \in FMBlocks : fmPartWeight(p, i) <= max_part_weights[i]}
  /\ searchOfNode = [v \in FMNodeSet |-> INACTIVE]
  /\ highestActiveSearchID = 1
  /\ refinementNodes = FMNodeSet
  /\ timestamps = [v \in FMNodeSet |-> current]
  /\ fruitlessSeed = {}
  /\ moveTracker = << >>
  /\ fm = [t \in FMThreadSet |-> NewSearch]

\* the partition a search sees through its DeltaPartitionedHypergraph
deltaPhg(t) ==
  [v \in FMNodeSet |-> IF fm[t].part_ids_delta[v] # kInvalidPartition
                       THEN fm[t].part_ids_delta[v] ELSE partID[v]]
PhgOf(t) == IF perform_moves_global THEN partID ELSE deltaPhg(t)

RECURSIVE bestDestinationFrom(_, _, _, _, _, _)
bestDestinationFrom(part, u, i, to, to_penalty, best_to_weight) ==
  IF i >= FMK THEN [to |-> to, gain |-> moveFromBenefit(part, u) - to_penalty]
  ELSE LET to_weight == fmPartWeight(part, i)
           penalty == moveToPenalty(part, u, i)
       IN IF /\ i # part[u]
             /\ (penalty < to_penalty \/ (penalty = to_penalty /\ to_weight < best_to_weight))
             /\ (to_weight + nodeWeight(u) <= max_part_weights[i] \/ to_weight < best_to_weight)
          THEN bestDestinationFrom(part, u, i + 1, i, penalty, to_weight)
          ELSE bestDestinationFrom(part, u, i + 1, to, to_penalty, best_to_weight)

bestDestinationBlock(part, u) ==
  bestDestinationFrom(part, u, 0, kInvalidPartition, max_penalty,
                      fmPartWeight(part, part[u]) - nodeWeight(u))

\* insertOrUpdatePQ that takes every vertex that is not deactivated
insertOrUpdatePQ_Steal(s, son, part, v) ==
  LET pv == part[v]
      gain == bestDestinationBlock(part, v).gain
  IN IF son[v] # deactivatedNodeMarker /\ son[v] # s.thisSearch
     THEN [s |-> [s EXCEPT !.vertexPQs[pv] = pqInsert(@, v, gain), !.pushes = @ + 1],
           son |-> [son EXCEPT ![v] = s.thisSearch], ok |-> TRUE]
     ELSE IF son[v] = s.thisSearch
     THEN [s |-> [s EXCEPT !.vertexPQs[pv] = pqInsert(@, v, gain)], son |-> son, ok |-> TRUE]
     ELSE [s |-> s, son |-> son, ok |-> FALSE]

\* insertOrUpdatePQ of the search s on the node tracker son; the load and the
\* compare-and-swap of searchOfNode[v] are one step
insertOrUpdatePQ(s, son, part, v) ==
  LET pv == part[v]
      gain == bestDestinationBlock(part, v).gain
  IN IF isSearchInactive(son[v])
     THEN [s |-> [s EXCEPT !.vertexPQs[pv] = pqInsert(@, v, gain), !.pushes = @ + 1],
           son |-> [son EXCEPT ![v] = s.thisSearch], ok |-> TRUE]
     ELSE IF son[v] = s.thisSearch
     THEN [s |-> [s EXCEPT !.vertexPQs[pv] = pqInsert(@, v, gain)], son |-> son, ok |-> TRUE]
     ELSE [s |-> s, son |-> son, ok |-> FALSE]

\* the loop of insertOrUpdateNeighbors over the pins N that are not yet in
\* the updateDeduplicator
RECURSIVE insertOrUpdateNeighbors(_, _, _, _)
insertOrUpdateNeighbors(s, son, part, N) ==
  IF N = {} THEN [s |-> s, son |-> son]
  ELSE LET v == CHOOSE x \in N : \A y \in N : x <= y
           r == insertOrUpdatePQ(s, son, part, v)
       IN insertOrUpdateNeighbors(r.s, r.son, part, N \ {v})

\* ---- findMovesLocalized ----
FMStart(t) ==
  /\ fm[t].pc = "idle"
  /\ highestActiveSearchID < 1 + FMMaxSearches
  /\ highestActiveSearchID' = highestActiveSearchID + 1
  /\ fm' = [fm EXCEPT ![t] = [NewSearch EXCEPT !.pc = "seeds",
                                               !.thisSearch = highestActiveSearchID + 1,
                                               !.blockPQ = fm[t].blockPQ,
                                               !.startPart = partID]]
  /\ UNCHANGED <<perform_moves_global, allow_zero_gain_moves, max_part_weights, retriesInCall, partID, searchOfNode,
                 refinementNodes, timestamps, fruitlessSeed, moveTracker>>
  /\ UNCHANGED notf

FMPopSeed(t) ==
  /\ fm[t].pc = "seeds"
  /\ fm[t].pushes < FMNumSeedNodes
  /\ \E seedNode \in refinementNodes :
       LET r == insertOrUpdatePQ(fm[t], searchOfNode, partID, seedNode) IN
         /\ refinementNodes' = refinementNodes \ {seedNode}
         /\ timestamps' = [timestamps EXCEPT ![seedNode] = current + 1]
         /\ searchOfNode' = r.son
         /\ fm' = [fm EXCEPT ![t] = IF r.ok
                                    THEN [r.s EXCEPT !.seedVertices = @ \cup {seedNode}]
                                    ELSE r.s]
  /\ UNCHANGED <<perform_moves_global, allow_zero_gain_moves, max_part_weights, retriesInCall, partID,
                 highestActiveSearchID, fruitlessSeed, moveTracker>>
  /\ UNCHANGED notf

FMSeedsDone(t) ==
  /\ fm[t].pc = "seeds"
  /\ fm[t].pushes >= FMNumSeedNodes \/ refinementNodes = {}
  /\ LET bpq == updateBlocks(fm[t].blockPQ, fm[t].vertexPQs, partID, kInvalidPartition, {})
     IN fm' = [fm EXCEPT ![t] = IF fm[t].pushes > 0
                                THEN [@ EXCEPT !.pc = "loop", !.blockPQ = bpq]
                                ELSE [@ EXCEPT !.pc = "idle", !.result = "false",
                                               !.blockPQ = bpq]]
  /\ UNCHANGED <<perform_moves_global, allow_zero_gain_moves, max_part_weights, retriesInCall, partID, searchOfNode,
                 highestActiveSearchID, refinementNodes, timestamps, fruitlessSeed,
                 moveTracker>>
  /\ UNCHANGED notf

\* ---- the loop of internalFindMovesOn{Global,Delta}Hypergraph ----
AfterLoop(s) ==
  IF perform_moves_global THEN [s EXCEPT !.pc = "revert"]
  ELSE [s EXCEPT !.pc = "apply", !.i = 0, !.appliedImprovement = 0,
                 !.appliedBest = 0, !.bestIndex = 0]

\* the retries counted after a step that moves a node: none when the global
\* partition has changed
RetriesAfterMove(part) ==
  IF part # partID THEN [t \in FMThreadSet |-> 0] ELSE retriesInCall

\* findNextMove returns false
FMNoMove(t) ==
  /\ fm[t].pc = "loop"
  /\ DOMAIN fm[t].blockPQ = {}
  /\ fm' = [fm EXCEPT ![t] = AfterLoop(@)]
  /\ retriesInCall' = [retriesInCall EXCEPT ![t] = 0]
  /\ UNCHANGED <<perform_moves_global, allow_zero_gain_moves, max_part_weights, partID, searchOfNode,
                 highestActiveSearchID, refinementNodes, timestamps, fruitlessSeed,
                 moveTracker>>
  /\ UNCHANGED notf

\* the adaptive stop rule may fire once it has seen a move since its last reset
searchShouldStop(numSteps) == numSteps > 0

FMStopRule(t) ==
  /\ fm[t].pc = "loop"
  /\ searchShouldStop(fm[t].numSteps)
  /\ fm' = [fm EXCEPT ![t] = AfterLoop(@)]
  /\ retriesInCall' = [retriesInCall EXCEPT ![t] = 0]
  /\ UNCHANGED <<perform_moves_global, allow_zero_gain_moves, max_part_weights, partID, searchOfNode,
                 highestActiveSearchID, refinementNodes, timestamps, fruitlessSeed,
                 moveTracker>>
  /\ UNCHANGED notf

\* the top of blockPQ and the top of its vertex PQ (ties are broken by the heap)
TopChoices(pqs) ==
  {<<from, u>> \in FMBlocks \X FMNodeSet :
     /\ from \in blockPQ(pqs)
     /\ \A i \in blockPQ(pqs) : topKey(pqs[i]) <= topKey(pqs[from])
     /\ u \in DOMAIN pqs[from]
     /\ pqs[from][u] = topKey(pqs[from])}

\* findNextMove, lines 404-406: the top of the block PQ of the search s and the
\* top of the vertex PQ of that block
TopOfBlockPQ(s) ==
  {<<from, u>> \in FMBlocks \X FMNodeSet :
     /\ from \in DOMAIN s.blockPQ
     /\ \A i \in DOMAIN s.blockPQ : s.blockPQ[i] <= s.blockPQ[from]
     /\ u \in DOMAIN s.vertexPQs[from]
     /\ s.vertexPQs[from][u] = topKey(s.vertexPQs[from])}

\* accept any gain that is at least as good as the key
acceptsGain_Strict(gain, estimated_gain) == gain > estimated_gain

acceptsGain(gain, estimated_gain) == gain >= estimated_gain

\* findNextMove accepts the top vertex; the search deactivates it
FMFindNextMove(t) ==
  /\ fm[t].pc = "loop"
  /\ \E c \in TopOfBlockPQ(fm[t]) :
       LET from == c[1]
           u == c[2]
           estimated_gain == fm[t].vertexPQs[from][u]
           bd == bestDestinationBlock(PhgOf(t), u)
       IN /\ acceptsGain(bd.gain, estimated_gain)
          /\ fm' = [fm EXCEPT ![t] =
                      [@ EXCEPT !.m = [node |-> u, from |-> from, to |-> bd.to, gain |-> bd.gain],
                                !.vertexPQs[from] = pqRemove(@, u),
                                !.pc = "move"]]
          /\ searchOfNode' = [searchOfNode EXCEPT ![u] = deactivatedNodeMarker]
  /\ UNCHANGED <<perform_moves_global, allow_zero_gain_moves, max_part_weights, retriesInCall, partID,
                 highestActiveSearchID, refinementNodes, timestamps, fruitlessSeed,
                 moveTracker>>
  /\ UNCHANGED notf

\* findNextMove finds the gain of the top vertex smaller than its key
FMRetry(t) ==
  /\ fm[t].pc = "loop"
  /\ \E c \in TopOfBlockPQ(fm[t]) :
       LET from == c[1]
           u == c[2]
           estimated_gain == fm[t].vertexPQs[from][u]
           bd == bestDestinationBlock(PhgOf(t), u)
           adjusted == pqInsert(fm[t].vertexPQs[from], u, bd.gain)
       IN /\ ~acceptsGain(bd.gain, estimated_gain)
          /\ fm' = [fm EXCEPT ![t].vertexPQs[from] = adjusted,
                              ![t].blockPQ = IF topKey(adjusted) # @[from]
                                               THEN pqInsert(@, from, topKey(adjusted))
                                               ELSE @]
  /\ retriesInCall' = [retriesInCall EXCEPT ![t] = @ + 1]
  /\ UNCHANGED <<perform_moves_global, allow_zero_gain_moves, max_part_weights, partID, searchOfNode,
                 highestActiveSearchID, refinementNodes, timestamps, fruitlessSeed,
                 moveTracker>>
  /\ UNCHANGED notf

\* hes_to_update_func: the incident hyperedges of u the move makes invalid
InvalidatedBy(part, u, from, to) ==
  {e \in fmIncidentEdges(u) :
     \/ fmPinCountInPart(part, e, from) \in {0, 1}
     \/ fmPinCountInPart(part, e, to) \in {1, 2}}

move_improved_quality_Always(estimated, best, toWeight, wu, heaviestPartWeight) ==
  estimated >= best - 1

move_improved_quality(estimated, best, toWeight, wu, heaviestPartWeight) ==
  IF allow_zero_gain_moves THEN estimated >= best
  ELSE \/ estimated > best
       \/ (estimated >= best /\ toWeight + wu < heaviestPartWeight)

\* the locals of a search whose move was declined: nothing but the next
\* iteration of the loop
declinedMove_Logged(s) ==
  [s EXCEPT !.m = NoMove, !.pc = "loop", !.estimatedImprovement = @ + s.m.gain]

declinedMove(s) == [s EXCEPT !.m = NoMove, !.pc = "loop"]

\* the global partition after a move of the loop: phg.changeNodePartFullUpdate
\* in global mode, deltaPhg.changeNodePart in delta mode
globalAfterMove_Published(part, mv) == [part EXCEPT ![mv.node] = mv.to]

globalAfterMove(part, mv) ==
  IF perform_moves_global THEN [part EXCEPT ![mv.node] = mv.to] ELSE part

\* the budget handed to changeNodePart for a move into a block of maximum
\* weight max_to out of a block of weight fromWeight
moveBudget_Sum(max_to, fromWeight) == max_to + fromWeight

moveBudget(max_to, fromWeight) == Max(max_to, fromWeight)

\* the body of the loop after findNextMove
FMMove(t) ==
  /\ fm[t].pc = "move"
  /\ LET s == fm[t]
         mv == s.m
         phg == PhgOf(t)
         heaviestPartWeight == heaviestPartAndWeight(phg)
         fromWeight == fmPartWeight(phg, mv.from)
         toWeight == fmPartWeight(phg, mv.to)
         moved == /\ mv.to # kInvalidPartition
                  /\ toWeight + nodeWeight(mv.node) <= moveBudget(max_part_weights[mv.to], fromWeight)
         after == [phg EXCEPT ![mv.node] = mv.to]
         move_id == Len(moveTracker) + 1
         estimated == s.estimatedImprovement + mv.gain
         improved == move_improved_quality(estimated, s.bestImprovement, toWeight,
                                           nodeWeight(mv.node), heaviestPartWeight)
         invalid == InvalidatedBy(after, mv.node, mv.from, mv.to)
         visited == {e \in fmIncidentEdges(mv.node) :
                       /\ fmEdgeSize(e) < hyperedge_size_threshold
                       /\ e \notin (s.validHyperedges \ invalid)}
         s1 == [s EXCEPT !.m = NoMove,
                         !.pc = "loop",
                         !.moves = @ + 1,
                         !.estimatedImprovement = estimated,
                         !.localMoves = IF perform_moves_global THEN @ ELSE Append(@, mv),
                         !.localMoveIDs = IF perform_moves_global THEN Append(@, move_id) ELSE @,
                         !.insertedIDs = IF perform_moves_global THEN Append(@, move_id) ELSE @,
                         !.part_ids_delta = IF perform_moves_global THEN @
                                            ELSE [@ EXCEPT ![mv.node] = mv.to],
                         !.numSteps = IF improved THEN 0 ELSE @ + 1,
                         !.bestImprovement = IF improved THEN estimated ELSE @,
                         !.bestImprovementIndex =
                            IF improved
                            THEN (IF perform_moves_global THEN Len(s.localMoveIDs)
                                  ELSE Len(s.localMoves)) + 1
                            ELSE @,
                         !.validHyperedges = (@ \ invalid) \cup visited]
         r == insertOrUpdateNeighbors(s1, searchOfNode, after,
                                      UNION {FMPins[e] : e \in visited})
     IN IF moved
        THEN /\ fm' = [fm EXCEPT ![t] =
                        [r.s EXCEPT !.blockPQ =
                           updateBlocks(@, r.s.vertexPQs, after, mv.from,
                                        UNION {FMPins[e] : e \in visited})]]
             /\ searchOfNode' = r.son
             /\ partID' = globalAfterMove(partID, mv)
             /\ moveTracker' = IF perform_moves_global
                               THEN Append(moveTracker, [node |-> mv.node, from |-> mv.from,
                                                         to |-> mv.to, gain |-> mv.gain,
                                                         valid |-> TRUE])
                               ELSE moveTracker
        ELSE /\ fm' = [fm EXCEPT ![t] =
                        [declinedMove(s) EXCEPT !.blockPQ =
                           updateBlocks(@, s.vertexPQs, phg, mv.from, {})]]
             /\ UNCHANGED <<searchOfNode, partID, moveTracker>>
  /\ retriesInCall' = [RetriesAfterMove(partID') EXCEPT ![t] = 0]
  /\ UNCHANGED <<perform_moves_global, allow_zero_gain_moves, max_part_weights, highestActiveSearchID,
                 refinementNodes, timestamps, fruitlessSeed>>
  /\ UNCHANGED notf

\* ---- clearPQs, up to the loop that releases the nodes ----
BeginClearPQs(s, bestImprovement_, bestImprovementIndex_) ==
  LET releaseNodes == fm_algorithm = "fm_multitry" /\ s.moves > 0 IN
    [s EXCEPT !.pc = "release",
              !.bestImprovement = bestImprovement_,
              !.bestImprovementIndex = bestImprovementIndex_,
              !.toRelease = IF releaseNodes THEN PQNodes(s.vertexPQs) ELSE {}]

FruitlessAfter(s, bestImprovementIndex_) ==
  IF fm_algorithm = "fm_multitry" /\ s.moves > 0 /\ ~(bestImprovementIndex_ > 0)
  THEN fruitlessSeed \cup s.seedVertices
  ELSE fruitlessSeed

\* ---- revertToBestLocalPrefix ----
MoveBack_Stay(part, mv) == [part EXCEPT ![mv.node] = mv.to]
MoveBack(part, mv) == [part EXCEPT ![mv.node] = mv.from]

FMRevert(t) ==
  /\ fm[t].pc = "revert"
  /\ Len(fm[t].localMoveIDs) > fm[t].bestImprovementIndex
  /\ LET id == fm[t].localMoveIDs[Len(fm[t].localMoveIDs)]
         mv == moveTracker[id]
     IN /\ partID' = MoveBack(partID, mv)
        /\ moveTracker' = [moveTracker EXCEPT ![id].valid = FALSE]
        /\ fm' = [fm EXCEPT ![t].localMoveIDs = SubSeq(@, 1, Len(@) - 1),
                            ![t].revertedIDs = Append(@, id)]
  /\ retriesInCall' = RetriesAfterMove(partID')
  /\ UNCHANGED <<perform_moves_global, allow_zero_gain_moves, max_part_weights, searchOfNode,
                 highestActiveSearchID, refinementNodes, timestamps, fruitlessSeed>>
  /\ UNCHANGED notf

FMRevertDone(t) ==
  /\ fm[t].pc = "revert"
  /\ ~(Len(fm[t].localMoveIDs) > fm[t].bestImprovementIndex)
  /\ fruitlessSeed' = FruitlessAfter(fm[t], fm[t].bestImprovementIndex)
  /\ fm' = [fm EXCEPT ![t] = BeginClearPQs(@, @.bestImprovement, @.bestImprovementIndex)]
  /\ UNCHANGED <<perform_moves_global, allow_zero_gain_moves, max_part_weights, retriesInCall, partID, searchOfNode,
                 highestActiveSearchID, refinementNodes, timestamps, moveTracker>>
  /\ UNCHANGED notf

\* ---- applyMovesOnGlobalHypergraph ----
\* the gain delta_gain_func attributes to the move once it is applied
lastGain(part, mv) ==
  LET after == [part EXCEPT ![mv.node] = mv.to] IN
    0 - SumFn([e \in FMHes |-> km1Delta(e, fmEdgeWeight(e), fmEdgeSize(e),
                                        fmPinCountInPart(after, e, mv.from),
                                        fmPinCountInPart(after, e, mv.to))],
              fmIncidentEdges(mv.node))

FMApplyMove(t) ==
  /\ fm[t].pc = "apply"
  /\ fm[t].i < fm[t].bestImprovementIndex
  /\ LET s == fm[t]
         mv == s.localMoves[s.i + 1]
         m_id == Len(moveTracker) + 1
         gain == lastGain(partID, mv)
         estimated == s.appliedImprovement + gain
     IN /\ partID' = [partID EXCEPT ![mv.node] = mv.to]
        /\ moveTracker' = Append(moveTracker, [node |-> mv.node, from |-> mv.from,
                                               to |-> mv.to, gain |-> gain, valid |-> TRUE])
        /\ fm' = [fm EXCEPT ![t] =
                    [@ EXCEPT !.localMoveIDs = Append(@, m_id),
                              !.insertedIDs = Append(@, m_id),
                              !.appliedImprovement = estimated,
                              !.appliedBest = IF estimated >= s.appliedBest THEN estimated ELSE @,
                              !.bestIndex = IF estimated >= s.appliedBest THEN s.i ELSE @,
                              !.i = @ + 1]]
  /\ retriesInCall' = RetriesAfterMove(partID')
  /\ UNCHANGED <<perform_moves_global, allow_zero_gain_moves, max_part_weights, searchOfNode,
                 highestActiveSearchID, refinementNodes, timestamps, fruitlessSeed>>
  /\ UNCHANGED notf

\* the end of the first loop: the second rollback starts, or the call returns
FMApplyDone(t) ==
  /\ fm[t].pc = "apply"
  /\ ~(fm[t].i < fm[t].bestImprovementIndex)
  /\ IF fm[t].appliedImprovement < 0
     THEN /\ fm' = [fm EXCEPT ![t].pc = "rollback", ![t].i = fm[t].bestIndex + 1]
          /\ UNCHANGED fruitlessSeed
     ELSE /\ fruitlessSeed' = FruitlessAfter(fm[t], fm[t].bestImprovementIndex)
          /\ fm' = [fm EXCEPT ![t] = BeginClearPQs(@, @.bestImprovement, @.bestImprovementIndex)]
  /\ UNCHANGED <<perform_moves_global, allow_zero_gain_moves, max_part_weights, retriesInCall, partID, searchOfNode,
                 highestActiveSearchID, refinementNodes, timestamps, moveTracker>>
  /\ UNCHANGED notf

FMRollback(t) ==
  /\ fm[t].pc = "rollback"
  /\ fm[t].i < fm[t].bestImprovementIndex
  /\ LET id == fm[t].localMoveIDs[fm[t].i + 1]
         mv == moveTracker[id]
     IN /\ partID' = MoveBack(partID, mv)
        /\ moveTracker' = [moveTracker EXCEPT ![id].valid = FALSE]
        /\ fm' = [fm EXCEPT ![t].i = @ + 1, ![t].revertedIDs = Append(@, id)]
  /\ retriesInCall' = RetriesAfterMove(partID')
  /\ UNCHANGED <<perform_moves_global, allow_zero_gain_moves, max_part_weights, searchOfNode,
                 highestActiveSearchID, refinementNodes, timestamps, fruitlessSeed>>
  /\ UNCHANGED notf

FMRollbackDone(t) ==
  /\ fm[t].pc = "rollback"
  /\ ~(fm[t].i < fm[t].bestImprovementIndex)
  /\ fruitlessSeed' = FruitlessAfter(fm[t], fm[t].bestIndex)
  /\ fm' = [fm EXCEPT ![t] = BeginClearPQs(@, @.appliedBest, @.bestIndex)]
  /\ UNCHANGED <<perform_moves_global, allow_zero_gain_moves, max_part_weights, retriesInCall, partID, searchOfNode,
                 highestActiveSearchID, refinementNodes, timestamps, moveTracker>>
  /\ UNCHANGED notf

\* ---- clearPQs: the release loop and the clearing of the PQs ----
\* the loop visits the vertex PQs in the order of the blocks
PQOf(s, v) == CHOOSE i \in FMBlocks : v \in DOMAIN s.vertexPQs[i]
NextToRelease(s) == {v \in s.toRelease : \A w \in s.toRelease : PQOf(s, v) <= PQOf(s, w)}

was_pushed_and_removed_Never(el) == FALSE

was_pushed_and_removed(el) == timestamps[el] = current + 1

FMReleaseNode(t) ==
  /\ fm[t].pc = "release"
  /\ \E node \in NextToRelease(fm[t]) :
       /\ searchOfNode' = [searchOfNode EXCEPT ![node] = INACTIVE]
       /\ IF node \notin fruitlessSeed /\ was_pushed_and_removed(node)
          THEN /\ refinementNodes' = refinementNodes \cup {node}
               /\ timestamps' = [timestamps EXCEPT ![node] = current]
          ELSE UNCHANGED <<refinementNodes, timestamps>>
       /\ fm' = [fm EXCEPT ![t].toRelease = @ \ {node}]
  /\ UNCHANGED <<perform_moves_global, allow_zero_gain_moves, max_part_weights, retriesInCall, partID,
                 highestActiveSearchID, fruitlessSeed, moveTracker>>
  /\ UNCHANGED notf

FMClearPQs(t) ==
  /\ fm[t].pc = "release"
  /\ fm[t].toRelease = {}
  /\ fm' = [fm EXCEPT ![t].vertexPQs = [i \in FMBlocks |-> EmptyPQ],
                      ![t].blockPQ = EmptyPQ,
                      ![t].pc = "idle", ![t].result = "true"]
  /\ UNCHANGED <<perform_moves_global, allow_zero_gain_moves, max_part_weights, retriesInCall, partID, searchOfNode,
                 highestActiveSearchID, refinementNodes, timestamps, fruitlessSeed,
                 moveTracker>>
  /\ UNCHANGED notf

FMStep ==
  \E t \in FMThreadSet :
    \/ FMStart(t)
    \/ FMPopSeed(t)
    \/ FMSeedsDone(t)
    \/ FMNoMove(t)
    \/ FMStopRule(t)
    \/ FMFindNextMove(t)
    \/ FMRetry(t)
    \/ FMMove(t)
    \/ FMRevert(t)
    \/ FMRevertDone(t)
    \/ FMApplyMove(t)
    \/ FMApplyDone(t)
    \/ FMRollback(t)
    \/ FMRollbackDone(t)
    \/ FMReleaseNode(t)
    \/ FMClearPQs(t)

\* a search that has left applyMovesOnGlobalHypergraph or revertToBestLocalPrefix
Finished(t) == fm[t].pc = "release" \/ (fm[t].pc = "idle" /\ fm[t].result = "true")

\* the moves of the search that are applied on the global hypergraph
AppliedMoveIDs(t) ==
  {id \in {fm[t].localMoveIDs[j] : j \in 1..Len(fm[t].localMoveIDs)} : moveTracker[id].valid}

(***************************************************************************)
(*                      WorkContainer  (work_stack.h)                      *)
(*  One SPMCQueue per thread; a call of try_pop_front is one step here     *)
(*  (its steps are those of the SPMCQueue specification), the producer's   *)
(*  reallocation window and the timestamp stores are steps of their own.   *)
(***************************************************************************)
WCNodes == 2          \* maxNumElements
WCThreads == 2        \* threads, one thread-local queue each
WCMaxPush == 2        \* push_back calls between two clear() calls
WCInitCap == 1        \* capacity of a queue's vector at construction
TimestampBits == 3    \* width of TimestampT in the model

max_steal_failures == 1024

WCNodeSet == 1..WCNodes
WCThreadSet == 1..WCThreads

\* std::numeric_limits<TimestampT>::max()
TimestampMax == 2^TimestampBits - 1

\* unsigned arithmetic of TimestampT
WrapTimestamp(x) == x % (2^TimestampBits)

WCIdleLocal ==
  [pc |-> "idle", el |-> 0, idx |-> 0, old_front |-> 0,
   some_are_blocked |-> FALSE, fetched |-> -1]

IdleWC ==
  /\ tls_queues = << >>
  /\ wc_timestamps = << >>
  /\ wc_current = 0
  /\ steal_failures = 0
  /\ wc = << >>
  /\ removedSinceClear = {}
  /\ writtenThisRound = {}
  /\ counterWrapped = FALSE
  /\ wcPushes = 0

\* WorkContainer(maxNumElements), SPMCQueue()
InitWC ==
  /\ tls_queues = [t \in WCThreadSet |->
                     [elements |-> << >>, front |-> 0, capacity |-> WCInitCap]]
  /\ wc_timestamps = [v \in WCNodeSet |-> 0]
  /\ wc_current = current
  /\ steal_failures = 0
  /\ wc = [t \in WCThreadSet |-> WCIdleLocal]
  /\ removedSinceClear = {}
  /\ writtenThisRound = {}
  /\ counterWrapped = FALSE
  /\ wcPushes = 0

\* SPMCQueue::currently_blocked
currently_blocked(q) == q.front >= in_reallocation

\* SPMCQueue::try_pop_front: [ok, el, q]
try_pop_front(q) ==
  IF q.front < in_reallocation /\ q.front < Len(q.elements)
  THEN [ok |-> TRUE, el |-> q.elements[q.front + 1],
        q |-> [q EXCEPT !.front = q.front + 1]]
  ELSE [ok |-> FALSE, el |-> 0, q |-> q]

\* WorkContainer::push_back, SPMCQueue::push_back up to the append or the
\* compare-and-swap that blocks the queue
WCPushBegin(t, v) ==
  /\ wc[t].pc = "idle"
  /\ wcPushes < WCMaxPush
  /\ wcPushes' = wcPushes + 1
  /\ LET q == tls_queues[t]
         f == IF q.front > Len(q.elements) THEN Len(q.elements) ELSE q.front
     IN IF Len(q.elements) < q.capacity
        THEN /\ tls_queues' = [tls_queues EXCEPT ![t] =
                [q EXCEPT !.elements = Append(q.elements, v), !.front = f]]
             /\ wc' = [wc EXCEPT ![t].pc = "push_stamp", ![t].el = v]
             /\ removedSinceClear' = removedSinceClear \ {v}
        ELSE /\ tls_queues' = [tls_queues EXCEPT ![t] =
                [q EXCEPT !.front = in_reallocation]]
             /\ wc' = [wc EXCEPT ![t].pc = "push_realloc", ![t].el = v,
                                 ![t].old_front = f]
             /\ UNCHANGED removedSinceClear
  /\ UNCHANGED <<wc_timestamps, wc_current, steal_failures, writtenThisRound,
                 counterWrapped>>
  /\ UNCHANGED notw

\* SPMCQueue::push_back: the reallocating append, the move to the front and
\* the release of front
WCPushRealloc(t) ==
  /\ wc[t].pc = "push_realloc"
  /\ LET q == tls_queues[t]
         grown == Append(q.elements, wc[t].el)
         of == Min(Len(grown) - 1, wc[t].old_front)
     IN tls_queues' = [tls_queues EXCEPT ![t] =
          [elements |-> SubSeq(grown, of + 1, Len(grown)), front |-> 0,
           capacity |-> 2 * q.capacity]]
  /\ wc' = [wc EXCEPT ![t].pc = "push_stamp", ![t].old_front = 0]
  /\ removedSinceClear' = removedSinceClear \ {wc[t].el}
  /\ UNCHANGED <<wc_timestamps, wc_current, steal_failures, writtenThisRound,
                 counterWrapped, wcPushes>>
  /\ UNCHANGED notw

\* WorkContainer::push_back: timestamps[el] = current
WCPushStamp(t) ==
  /\ wc[t].pc = "push_stamp"
  /\ wc_timestamps' = [wc_timestamps EXCEPT ![wc[t].el] = wc_current]
  /\ writtenThisRound' = writtenThisRound \cup {wc[t].el}
  /\ wc' = [wc EXCEPT ![t].pc = "idle", ![t].el = 0]
  /\ UNCHANGED <<tls_queues, wc_current, steal_failures, removedSinceClear,
                 counterWrapped, wcPushes>>
  /\ UNCHANGED notw

\* the locals of a try_pop that took dest out of queue o
WCPopped(t, o, r) ==
  /\ tls_queues' = [tls_queues EXCEPT ![o] = r.q]
  /\ wc' = [wc EXCEPT ![t] = [WCIdleLocal EXCEPT !.pc = "pop_stamp", !.el = r.el]]
  /\ removedSinceClear' = removedSinceClear \cup {r.el}

\* the locals of a try_pop that returns false
WCReturnFalse(t) == WCIdleLocal

\* WorkContainer::try_pop: the pop on the thread-local queue
WCTryPopLocal(t) ==
  /\ wc[t].pc = "idle"
  /\ LET r == try_pop_front(tls_queues[t])
     IN IF r.ok
        THEN WCPopped(t, t, r)
        ELSE /\ wc' = [wc EXCEPT ![t] = [WCIdleLocal EXCEPT !.pc = "steal",
                                            !.idx = 1]]
             /\ UNCHANGED <<tls_queues, removedSinceClear>>
  /\ UNCHANGED <<wc_timestamps, wc_current, steal_failures, writtenThisRound,
                 counterWrapped, wcPushes>>
  /\ UNCHANGED notw

\* WorkContainer::try_pop: one iteration of the stealing loop
WCSteal(t) ==
  /\ wc[t].pc = "steal"
  /\ LET o == wc[t].idx
         r == try_pop_front(tls_queues[o])
     IN IF r.ok
        THEN WCPopped(t, o, r)
        ELSE /\ wc' = [wc EXCEPT
                  ![t].some_are_blocked =
                     wc[t].some_are_blocked \/ currently_blocked(tls_queues[o]),
                  ![t].idx = o + 1,
                  ![t].pc = IF o = WCThreads THEN "decide" ELSE "steal"]
             /\ UNCHANGED <<tls_queues, removedSinceClear>>
  /\ UNCHANGED <<wc_timestamps, wc_current, steal_failures, writtenThisRound,
                 counterWrapped, wcPushes>>
  /\ UNCHANGED notw

\* the condition on the value steal_failures.fetch_add returned
MaySpin_AfterLimit(old) == old >= max_steal_failures

MaySpin(old) == old < max_steal_failures

\* WorkContainer::try_pop: some_are_blocked && steal_failures.fetch_add(1) < 1024
WCDecide(t) ==
  /\ wc[t].pc = "decide"
  /\ IF wc[t].some_are_blocked
     THEN /\ steal_failures' = steal_failures + 1
          /\ wc' = [wc EXCEPT ![t] =
                IF MaySpin(steal_failures)
                THEN [wc[t] EXCEPT !.pc = "scan", !.idx = 1,
                                   !.fetched = steal_failures]
                ELSE WCReturnFalse(t)]
     ELSE /\ wc' = [wc EXCEPT ![t] = WCReturnFalse(t)]
          /\ UNCHANGED steal_failures
  /\ UNCHANGED <<tls_queues, wc_timestamps, wc_current, removedSinceClear,
                 writtenThisRound, counterWrapped, wcPushes>>
  /\ UNCHANGED notw

\* the locals of a try_pop that goes on to the next queue of the second loop
WCNextScan(t) ==
  IF wc[t].idx = WCThreads
  THEN WCReturnFalse(t)
  ELSE [wc[t] EXCEPT !.pc = "scan", !.idx = wc[t].idx + 1]

\* WorkContainer::try_pop: if (other.currently_blocked()) of the second loop
WCScan(t) ==
  /\ wc[t].pc = "scan"
  /\ wc' = [wc EXCEPT ![t] =
        IF currently_blocked(tls_queues[wc[t].idx])
        THEN [wc[t] EXCEPT !.pc = "spin"]
        ELSE WCNextScan(t)]
  /\ UNCHANGED <<tls_queues, wc_timestamps, wc_current, steal_failures,
                 removedSinceClear, writtenThisRound, counterWrapped, wcPushes>>
  /\ UNCHANGED notw

\* WorkContainer::try_pop: the end of the spin loop and the retried pop
WCSpinEnd(t) ==
  /\ wc[t].pc = "spin"
  /\ ~currently_blocked(tls_queues[wc[t].idx])
  /\ LET o == wc[t].idx
         r == try_pop_front(tls_queues[o])
     IN IF r.ok
        THEN WCPopped(t, o, r)
        ELSE /\ wc' = [wc EXCEPT ![t] = WCNextScan(t)]
             /\ UNCHANGED <<tls_queues, removedSinceClear>>
  /\ UNCHANGED <<wc_timestamps, wc_current, steal_failures, writtenThisRound,
                 counterWrapped, wcPushes>>
  /\ UNCHANGED notw

\* WorkContainer::try_pop: timestamps[dest] = current+1; return true
WCPopStamp(t) ==
  /\ wc[t].pc = "pop_stamp"
  /\ wc_timestamps' = [wc_timestamps EXCEPT ![wc[t].el] =
                         WrapTimestamp(wc_current + 1)]
  /\ writtenThisRound' = writtenThisRound \cup {wc[t].el}
  /\ wc' = [wc EXCEPT ![t] = WCIdleLocal]
  /\ UNCHANGED <<tls_queues, wc_current, steal_failures, removedSinceClear,
                 counterWrapped, wcPushes>>
  /\ UNCHANGED notw

\* the condition under which clear() restarts the counter
needsReset_AtMax(cur) == cur >= TimestampMax

needsReset(cur) == cur >= TimestampMax - 2

\* WorkContainer::clear, called between two rounds
WCClear ==
  /\ \A t \in WCThreadSet : wc[t].pc = "idle"
  /\ LET reset == needsReset(wc_current)
         cur == IF reset THEN 0 ELSE wc_current
     IN /\ wc_timestamps' = IF reset THEN [v \in WCNodeSet |-> 0]
                                     ELSE wc_timestamps
        /\ wc_current' = WrapTimestamp(cur + 2)
        /\ counterWrapped' = (counterWrapped \/ cur + 2 > TimestampMax)
  /\ tls_queues' = [t \in WCThreadSet |->
                      [tls_queues[t] EXCEPT !.elements = << >>, !.front = 0]]
  /\ steal_failures' = 0
  /\ removedSinceClear' = {}
  /\ writtenThisRound' = {}
  /\ wcPushes' = 0
  /\ UNCHANGED wc
  /\ UNCHANGED notw

WCStep ==
  \/ \E t \in WCThreadSet, v \in WCNodeSet : WCPushBegin(t, v)
  \/ \E t \in WCThreadSet : WCPushRealloc(t)
  \/ \E t \in WCThreadSet : WCPushStamp(t)
  \/ \E t \in WCThreadSet : WCTryPopLocal(t)
  \/ \E t \in WCThreadSet : WCSteal(t)
  \/ \E t \in WCThreadSet : WCDecide(t)
  \/ \E t \in WCThreadSet : WCScan(t)
  \/ \E t \in WCThreadSet : WCSpinEnd(t)
  \/ \E t \in WCThreadSet : WCPopStamp(t)
  \/ WCClear

\* WorkContainer::was_pushed_and_removed on the container's own state
wc_was_pushed_and_removed(v) == wc_timestamps[v] = WrapTimestamp(wc_current + 1)

WCQuiescent == \A t \in WCThreadSet : wc[t].pc = "idle"

(***************************************************************************)
(*        QuotientGraph active block scheduler  (quotient_graph.h)         *)
(*  The header declares the scheduler; the bodies of requestNewSearch,     *)
(*  finalizeSearch and of the round's queue operations follow the          *)
(*  description of the scheduler (section 4.6), markAsInQueue,             *)
(*  markAsNotInQueue, acquire, release and startSearch are the header's.   *)
(***************************************************************************)
SchedK == 4                  \* context.partition.k
SchedMaxSearches == 4        \* searches requested in one run
SchedMaxRounds == 3          \* rounds the scheduler opens in one run
MaxSearchesPerBlock == 2     \* concurrency limit of the refiner on a block

SchedBlocks == 0..(SchedK - 1)
BlockPairs == {p \in SchedBlocks \X SchedBlocks : p[1] < p[2]}

\* the block pairs in the order of the constructor's loops (i, then j)
RECURSIVE PairsInOrder(_)
PairsInOrder(n) ==
  IF n = 0 THEN << >>
  ELSE LET i == (n - 1) \div SchedK
           j == (n - 1) % SchedK
       IN IF i < j THEN Append(PairsInOrder(n - 1), <<i, j>>)
                   ELSE PairsInOrder(n - 1)

\* ActiveBlockSchedulingRound(context, quotient_graph, ...)
NewRound == [unscheduled_blocks |-> << >>, active_blocks |-> {}]

IdleSched ==
  /\ rounds = << >>
  /\ is_in_queue = << >>
  /\ qg_ownership = << >>
  /\ num_active_searches_on_blocks = << >>
  /\ searches = << >>
  /\ everQueued = << >>
  /\ lastRequest = << >>

\* QuotientGraph::initialize: round 0 holds every block pair
InitSched ==
  /\ rounds = <<[NewRound EXCEPT !.unscheduled_blocks = PairsInOrder(SchedK * SchedK)]>>
  /\ is_in_queue = [p \in BlockPairs |-> TRUE]
  /\ qg_ownership = [p \in BlockPairs |-> INVALID_SEARCH_ID]
  /\ num_active_searches_on_blocks = [b \in SchedBlocks |-> 0]
  /\ searches = << >>
  /\ everQueued = <<BlockPairs>>
  /\ lastRequest = [result |-> -1, schedulable |-> FALSE]

\* QuotientGraphEdge::markAsInQueue: [ok, flag]
markAsInQueue_Always(flag) == [ok |-> TRUE, flag |-> TRUE]

markAsInQueue(flag) ==
  IF flag = FALSE THEN [ok |-> TRUE, flag |-> TRUE]
                  ELSE [ok |-> FALSE, flag |-> flag]

\* QuotientGraphEdge::markAsNotInQueue: [ok, flag]
markAsNotInQueue(flag) ==
  IF flag = TRUE THEN [ok |-> TRUE, flag |-> FALSE]
                 ELSE [ok |-> FALSE, flag |-> flag]

\* ActiveBlockScheduler::startSearch
startSearch_FirstBlockOnly(num, blocks) == [num EXCEPT ![blocks[1]] = @ + 1]

startSearch(num, blocks) ==
  [num EXCEPT ![blocks[1]] = @ + 1, ![blocks[2]] = @ + 1]

\* a popped block pair can be given to a new search
Schedulable(p) ==
  /\ acquire(qg_ownership[p], Len(searches)).ok
  /\ num_active_searches_on_blocks[p[1]] < MaxSearchesPerBlock
  /\ num_active_searches_on_blocks[p[2]] < MaxSearchesPerBlock

\* number of block pairs requestNewSearch pops from queue q: up to and
\* including the first schedulable one
RECURSIVE NumPopped(_)
NumPopped(q) ==
  IF q = << >> THEN 0
  ELSE IF Schedulable(Head(q)) THEN 1 ELSE 1 + NumPopped(Tail(q))

\* the first round whose queue is not empty, 0 if there is none
FirstRoundWithPairs ==
  LET S == {r \in 1..Len(rounds) : rounds[r].unscheduled_blocks # << >>}
  IN IF S = {} THEN 0 ELSE CHOOSE r \in S : \A r2 \in S : r <= r2

\* some block pair in the queue of some round can be given to a new search
AnySchedulable ==
  \E r \in 1..Len(rounds) :
    \E x \in 1..Len(rounds[r].unscheduled_blocks) :
      Schedulable(rounds[r].unscheduled_blocks[x])

\* QuotientGraph::requestNewSearch
requestNewSearch ==
  /\ Len(searches) < SchedMaxSearches
  /\ LET r == FirstRoundWithPairs
     IN IF r = 0
        THEN /\ lastRequest' = [result |-> INVALID_SEARCH_ID, schedulable |-> FALSE]
             /\ UNCHANGED <<rounds, is_in_queue, qg_ownership,
                            num_active_searches_on_blocks, searches>>
        ELSE LET q == rounds[r].unscheduled_blocks
                 n == NumPopped(q)
                 gone == {q[x] : x \in 1..n}
                 found == Schedulable(q[n])
                 search_id == Len(searches)
             IN /\ rounds' = [rounds EXCEPT ![r].unscheduled_blocks =
                                SubSeq(q, n + 1, Len(q))]
                /\ is_in_queue' = [p \in BlockPairs |->
                      IF p \in gone THEN markAsNotInQueue(is_in_queue[p]).flag
                                    ELSE is_in_queue[p]]
                /\ lastRequest' =
                     [result |-> IF found THEN search_id ELSE INVALID_SEARCH_ID,
                      schedulable |-> AnySchedulable]
                /\ IF found
                   THEN /\ qg_ownership' = [qg_ownership EXCEPT ![q[n]] =
                              acquire(qg_ownership[q[n]], search_id).own]
                        /\ num_active_searches_on_blocks' =
                              startSearch(num_active_searches_on_blocks, q[n])
                        /\ searches' = Append(searches,
                              [blocks |-> q[n], round |-> r, is_finalized |-> FALSE,
                               improvement |-> 0])
                   ELSE UNCHANGED <<qg_ownership, num_active_searches_on_blocks,
                                    searches>>
  /\ UNCHANGED everQueued
  /\ UNCHANGED nots

\* the block pairs of block b in the order of the loop over the other blocks
RECURSIVE AdjacentPairs(_, _)
AdjacentPairs(b, other) ==
  IF other = SchedK THEN << >>
  ELSE IF other = b THEN AdjacentPairs(b, other + 1)
  ELSE <<(<<Min(b, other), Max(b, other)>>)>> \o AdjacentPairs(b, other + 1)

\* ActiveBlockSchedulingRound::pushBlockPairIntoQueue for a sequence of pairs:
\* [queue, flags, pushed]
RECURSIVE pushBlockPairsIntoQueue(_, _, _)
pushBlockPairsIntoQueue(queue, flags, ps) ==
  IF ps = << >> THEN [queue |-> queue, flags |-> flags, pushed |-> {}]
  ELSE LET m == markAsInQueue(flags[Head(ps)])
           rest == pushBlockPairsIntoQueue(
                     IF m.ok THEN Append(queue, Head(ps)) ELSE queue,
                     [flags EXCEPT ![Head(ps)] = m.flag], Tail(ps))
       IN [rest EXCEPT !.pushed = IF m.ok THEN @ \cup {Head(ps)} ELSE @]

\* QuotientGraph::finalizeSearch
finalizeSearch(search_id, improvement) ==
  /\ search_id < Len(searches)
  /\ ~searches[search_id + 1].is_finalized
  /\ improvement > 0 => searches[search_id + 1].round < SchedMaxRounds
  /\ LET s == searches[search_id + 1]
         r == s.round
         i == s.blocks[1]
         j == s.blocks[2]
         becomes_active == IF improvement > 0
                           THEN {i, j} \ rounds[r].active_blocks ELSE {}
         ps == (IF i \in becomes_active THEN AdjacentPairs(i, 0) ELSE << >>)
               \o (IF j \in becomes_active THEN AdjacentPairs(j, 0) ELSE << >>)
         opened == IF Len(rounds) = r /\ improvement > 0
                   THEN Append(rounds, NewRound) ELSE rounds
         res == IF improvement > 0
                THEN pushBlockPairsIntoQueue(opened[r + 1].unscheduled_blocks,
                                             is_in_queue, ps)
                ELSE [queue |-> << >>, flags |-> is_in_queue, pushed |-> {}]
     IN /\ searches' = [searches EXCEPT ![search_id + 1].is_finalized = TRUE,
                                        ![search_id + 1].improvement = improvement]
        /\ qg_ownership' = [qg_ownership EXCEPT ![s.blocks] =
                              release(qg_ownership[s.blocks], search_id)]
        /\ num_active_searches_on_blocks' =
             [num_active_searches_on_blocks EXCEPT ![i] = @ - 1, ![j] = @ - 1]
        /\ is_in_queue' = res.flags
        /\ rounds' = IF improvement > 0
                     THEN [opened EXCEPT
                             ![r].active_blocks = @ \cup {i, j},
                             ![r + 1].unscheduled_blocks = res.queue]
                     ELSE rounds
        /\ everQueued' = IF improvement > 0
                         THEN [x \in 1..Len(opened) |->
                                 IF x = r + 1
                                 THEN (IF x <= Len(everQueued) THEN everQueued[x] ELSE {})
                                         \cup res.pushed
                                 ELSE everQueued[x]]
                         ELSE everQueued
  /\ UNCHANGED lastRequest
  /\ UNCHANGED nots

SchedStep ==
  \/ requestNewSearch
  \/ \E sid \in 0..(SchedMaxSearches - 1), improvement \in 0..1 :
       finalizeSearch(sid, improvement)

\* the searches that were started and are not finalized
RunningSearches == {x \in 1..Len(searches) : ~searches[x].is_finalized}

\* number of entries of block pair p in the queues of all rounds
RECURSIVE CountIn(_, _)
CountIn(q, p) ==
  IF q = << >> THEN 0
  ELSE (IF Head(q) = p THEN 1 ELSE 0) + CountIn(Tail(q), p)

RECURSIVE QueueEntries(_, _)
QueueEntries(r, p) ==
  IF r = 0 THEN 0
  ELSE CountIn(rounds[r].unscheduled_blocks, p) + QueueEntries(r - 1, p)

\* round r has ended: its queue is empty and its searches are finalized
RoundEnded(r) ==
  /\ rounds[r].unscheduled_blocks = << >>
  /\ \A x \in RunningSearches : searches[x].round # r

(***************************************************************************)
(*   Prefix search of strategy A (deterministic_label_propagation.cpp)     *)
(*  findBestPrefixesSequentially and findBestPrefixesRecursive on the      *)
(*  array cumulative_node_weights: the prefix sums of the node weights of  *)
(*  direction p1 -> p2 (positions 0 .. n_p1 - 1) followed by those of      *)
(*  direction p2 -> p1.  The sequential search runs step by step, the      *)
(*  divide-and-conquer search is evaluated in one step.                    *)
(***************************************************************************)
BPMaxLen == 3                \* moves of one direction
BPMaxNodeWeight == 2         \* node weights are 1 .. BPMaxNodeWeight
BPMaxBound == 1              \* lb_p1 and ub_p2 lie in -BPMaxBound .. BPMaxBound
BPMinCutoff == 2             \* smallest sequential cutoff that is tried
BPMaxCutoff == 3             \* largest sequential cutoff that is tried

BPWeightSeqs ==
  UNION {[1..n -> 1..BPMaxNodeWeight] : n \in 0..BPMaxLen}

\* the prefix sums of the node weights w
PrefixSums(w) ==
  [i \in 1..Len(w) |-> SumFn([j \in 1..i |-> w[j]], 1..i)]

\* cumulative_node_weights[pos], pos counted from 0 as in the code
CumAt(c, pos) == c[pos + 1]

\* the lambda balance of both functions
balance(c, p1_ind, p2_ind, p1_invalid, p2_invalid) ==
  LET a == IF p1_ind = p1_invalid THEN 0 ELSE CumAt(c, p1_ind)
      b == IF p2_ind = p2_invalid THEN 0 ELSE CumAt(c, p2_ind)
  IN  a - b

\* the lambda is_feasible of both functions
is_feasible(c, p1_ind, p2_ind, p1_invalid, p2_invalid, lb_p1, ub_p2) ==
  LET bal == balance(c, p1_ind, p2_ind, p1_invalid, p2_invalid)
  IN  lb_p1 <= bal /\ bal <= ub_p2

\* std::lower_bound(c + first, c + last, value): the first position in
\* first .. last - 1 whose entry is not less than value, last if there is none
lower_bound(c, first, last, value) ==
  LET hit == {i \in first..(last - 1) : CumAt(c, i) >= value}
  IN  IF hit = {} THEN last ELSE CHOOSE i \in hit : \A j \in hit : i <= j

\* findBestPrefixesSequentially on the array c, the whole loop
RECURSIVE SequentialPrefixes(_, _, _, _, _, _, _, _, _)
SequentialPrefixes(c, p1_begin, p1_end, p2_begin, p2_end, p1_inv, p2_inv, lb_p1, ub_p2) ==
  IF is_feasible(c, p1_end - 1, p2_end - 1, p1_inv, p2_inv, lb_p1, ub_p2)
    THEN <<p1_end, p2_end>>
  ELSE IF balance(c, p1_end - 1, p2_end - 1, p1_inv, p2_inv) < 0
    THEN IF p2_end = p2_begin THEN <<invalid_pos, invalid_pos>>
         ELSE SequentialPrefixes(c, p1_begin, p1_end, p2_begin, p2_end - 1,
                                 p1_inv, p2_inv, lb_p1, ub_p2)
    ELSE IF p1_end = p1_begin THEN <<invalid_pos, invalid_pos>>
         ELSE SequentialPrefixes(c, p1_begin, p1_end - 1, p2_begin, p2_end,
                                 p1_inv, p2_inv, lb_p1, ub_p2)

\* what the recursion returns from its two halves
RightOrLeft(left, right) == IF right[1] # invalid_pos THEN right ELSE left

\* findBestPrefixesRecursive; sequential_cutoff is the last parameter
RECURSIVE findBestPrefixesRecursive(_, _, _, _, _, _, _, _, _, _)
findBestPrefixesRecursive(c, p1_begin, p1_end, p2_begin, p2_end, p1_invalid, p2_invalid, lb_p1, ub_p2, sequential_cutoff) ==
  LET n_p1 == p1_end - p1_begin
      n_p2 == p2_end - p2_begin
      R(a, b, x, y) ==
        findBestPrefixesRecursive(c, a, b, x, y, p1_invalid, p2_invalid,
                                  lb_p1, ub_p2, sequential_cutoff)
  IN
  IF n_p1 < sequential_cutoff /\ n_p2 < sequential_cutoff
    THEN SequentialPrefixes(c, p1_begin, p1_end, p2_begin, p2_end,
                            p1_invalid, p2_invalid, lb_p1, ub_p2)
  ELSE IF n_p1 > n_p2
    THEN LET p1_mid == p1_begin + (n_p1 \div 2)
             p2_match == lower_bound(c, p2_begin, p2_end, CumAt(c, p1_mid))
         IN  IF /\ p2_match # p2_end
                /\ p1_mid # p1_end
                /\ is_feasible(c, p1_mid, p2_match, p1_invalid, p2_invalid, lb_p1, ub_p2)
               THEN R(p1_mid + 1, p1_end, p2_match + 1, p2_end)
             ELSE IF /\ p2_match = p2_end
                     /\ balance(c, p1_mid, p2_end - 1, p1_invalid, p2_invalid) > ub_p2
               THEN R(p1_begin, p1_mid, p2_begin, p2_match)
             ELSE RightOrLeft(R(p1_begin, p1_mid, p2_begin, p2_match),
                              R(p1_mid, p1_end, p2_match, p2_end))
    ELSE LET p2_mid == p2_begin + (n_p2 \div 2)
             p1_match == lower_bound(c, p1_begin, p1_end, CumAt(c, p2_mid))
         IN  IF /\ p1_match # p1_end
                /\ p2_mid # p2_end
                /\ is_feasible(c, p1_match, p2_mid, p1_invalid, p2_invalid, lb_p1, ub_p2)
               THEN R(p1_match + 1, p1_end, p2_mid + 1, p2_end)
             ELSE IF /\ p1_match = p1_end
                     /\ balance(c, p1_end - 1, p2_mid, p1_invalid, p2_invalid) < lb_p1
               THEN R(p1_begin, p1_match, p2_begin, p2_mid)
             ELSE RightOrLeft(R(p1_begin, p1_match, p2_begin, p2_mid),
                              R(p1_match, p1_end, p2_mid, p2_end))

IdleBP == prefix_in = << >> /\ prefix_run = << >>

\* the call of lines 350-357: direction p1 -> p2 occupies positions 0 .. n_p1 - 1,
\* direction p2 -> p1 the positions behind it; the invalid positions are
\* p1_begin - 1 (the wrapped size_t, written -1) and p2_begin - 1
InitBP ==
  /\ \E w1 \in BPWeightSeqs, w2 \in BPWeightSeqs,
        lb \in (-BPMaxBound)..BPMaxBound, ub \in (-BPMaxBound)..BPMaxBound,
        cutoff \in BPMinCutoff..BPMaxCutoff :
       prefix_in = [c |-> PrefixSums(w1) \o PrefixSums(w2),
                    p1_begin |-> 0, p1_end |-> Len(w1),
                    p2_begin |-> Len(w1), p2_end |-> Len(w1) + Len(w2),
                    p1_invalid |-> -1, p2_invalid |-> Len(w1) - 1,
                    lb_p1 |-> lb, ub_p2 |-> ub, sequential_cutoff |-> cutoff]
  /\ prefix_run = [pc |-> "call", p1_end |-> prefix_in.p1_end, p2_end |-> prefix_in.p2_end,
                   sequential |-> <<invalid_pos, invalid_pos>>,
                   recursive |-> <<invalid_pos, invalid_pos>>]

\* line 355: the divide-and-conquer search on the whole ranges
BPRecursive ==
  /\ prefix_run.pc = "call"
  /\ prefix_run' =
       [prefix_run EXCEPT
          !.pc = "loop",
          !.recursive =
             findBestPrefixesRecursive(prefix_in.c, prefix_in.p1_begin, prefix_in.p1_end,
                                       prefix_in.p2_begin, prefix_in.p2_end,
                                       prefix_in.p1_invalid, prefix_in.p2_invalid,
                                       prefix_in.lb_p1, prefix_in.ub_p2,
                                       prefix_in.sequential_cutoff)]
  /\ UNCHANGED prefix_in
  /\ UNCHANGED notb

LoopBalance ==
  balance(prefix_in.c, prefix_run.p1_end - 1, prefix_run.p2_end - 1,
          prefix_in.p1_invalid, prefix_in.p2_invalid)

LoopFeasible == prefix_in.lb_p1 <= LoopBalance /\ LoopBalance <= prefix_in.ub_p2

\* line 492: the pair of prefix ends is feasible and is returned
BPReturn ==
  /\ prefix_run.pc = "loop"
  /\ LoopFeasible
  /\ prefix_run' = [prefix_run EXCEPT !.pc = "done",
                                      !.sequential = <<prefix_run.p1_end, prefix_run.p2_end>>]
  /\ UNCHANGED prefix_in
  /\ UNCHANGED notb

\* lines 493-495: direction p2 -> p1 is too heavy, its prefix loses a move
BPShortenP2 ==
  /\ prefix_run.pc = "loop"
  /\ ~LoopFeasible
  /\ LoopBalance < 0
  /\ prefix_run.p2_end # prefix_in.p2_begin
  /\ prefix_run' = [prefix_run EXCEPT !.p2_end = @ - 1]
  /\ UNCHANGED prefix_in
  /\ UNCHANGED notb

\* lines 496-498: the prefix of direction p1 -> p2 loses a move
BPShortenP1 ==
  /\ prefix_run.pc = "loop"
  /\ ~LoopFeasible
  /\ LoopBalance >= 0
  /\ prefix_run.p1_end # prefix_in.p1_begin
  /\ prefix_run' = [prefix_run EXCEPT !.p1_end = @ - 1]
  /\ UNCHANGED prefix_in
  /\ UNCHANGED notb

\* lines 494, 497 and 501: the prefix to shorten is empty, the search gives up
BPBreak ==
  /\ prefix_run.pc = "loop"
  /\ ~LoopFeasible
  /\ IF LoopBalance < 0 THEN prefix_run.p2_end = prefix_in.p2_begin
                        ELSE prefix_run.p1_end = prefix_in.p1_begin
  /\ prefix_run' = [prefix_run EXCEPT !.pc = "done",
                                      !.sequential = <<invalid_pos, invalid_pos>>]
  /\ UNCHANGED prefix_in
  /\ UNCHANGED notb

BPStep == BPRecursive \/ BPReturn \/ BPShortenP2 \/ BPShortenP1 \/ BPBreak

(***************************************************************************)
(*   Revert passes of strategy B1 (deterministic_label_propagation.cpp)    *)
(*  applyMovesSortedByGainAndRevertUnbalanced up to its applyMovesIf, one  *)
(*  loop iteration per step, entered with any partition and any buffer of  *)
(*  moves in which every vertex moves at most once.                        *)
(***************************************************************************)
B1Nodes == 5                 \* vertices of the hypergraph the passes run on
B1MaxGain == 1               \* gains of the buffered moves are 1 .. B1MaxGain
B1MaxExtraRounds == 6        \* num_extra_rounds is not counted beyond this

B1NodeSet == 1..B1Nodes

\* phg.partWeight(b) of the partition part of the vertices B1NodeSet
B1PartWeight(part, b) ==
  SumFn([u \in B1NodeSet |-> nodeWeight(u)], {u \in B1NodeSet : part[u] = b})

\* the buffers of moves of the partition part: every vertex has at most one move,
\* to a block other than its own (target[u] = part[u] stands for no move of u)
B1MoveSets(part) ==
  {{[node |-> u, from |-> part[u], to |-> target[u], gain |-> gain[u]] :
       u \in {v \in B1NodeSet : target[v] # part[v]}} :
     target \in [B1NodeSet -> LPBlocks] \ {part}, gain \in [B1NodeSet -> 1..B1MaxGain]}

IdleB1 == b1_phg = << >> /\ b1_run = << >>

\* line 101: the strategy runs on a buffer that is not empty.  The passes treat
\* all blocks alike, so vertex 1 starts in block 0
InitB1 ==
  /\ b1_phg \in {p \in [B1NodeSet -> LPBlocks] : p[1] = 0}
  /\ \E M \in B1MoveSets(b1_phg) :
       b1_run = [pc |-> "sort", mv |-> ByNode(M), pw |-> [b \in LPBlocks |-> 0], nob |-> 0,
             j |-> 0, last_valid_move |-> 0, num_extra_rounds |-> 0]

\* lines 201-222: the moves are sorted, the part weights that result from all of
\* them are aggregated and the overloaded blocks counted
B1Sort ==
  /\ b1_run.pc = "sort"
  /\ LET sorted == SortMoves(b1_run.mv)
         pw == [b \in LPBlocks |->
                  B1PartWeight(b1_phg, b) + aggregatePartWeightDeltas(sorted)[b]]
     IN  b1_run' = [b1_run EXCEPT !.pc = "first", !.mv = sorted, !.pw = pw,
                          !.nob = Cardinality({b \in LPBlocks : pw[b] > LPMaxPartWeight}),
                          !.j = Len(sorted)]
  /\ UNCHANGED b1_phg
  /\ UNCHANGED notr

\* lines 234-240: one iteration of the first backward pass
B1FirstLoop ==
  /\ b1_run.pc = "first"
  /\ b1_run.nob > 0 /\ b1_run.j > 0
  /\ LET m == b1_run.mv[b1_run.j]
         s == IF /\ b1_run.pw[m.to] > LPMaxPartWeight
                 /\ b1_run.pw[m.from] + nodeWeight(m.node) <= LPMaxPartWeight
                THEN revert_move(b1_run, b1_run.j) ELSE b1_run
     IN  b1_run' = [s EXCEPT !.j = b1_run.j - 1]
  /\ UNCHANGED b1_phg
  /\ UNCHANGED notr

\* lines 234 and 242-247: the first pass is over; extra passes start if a block
\* is still overloaded
B1FirstExit ==
  /\ b1_run.pc = "first"
  /\ ~(b1_run.nob > 0 /\ b1_run.j > 0)
  /\ b1_run' = IF b1_run.nob > 0
             THEN [b1_run EXCEPT !.pc = "extra", !.j = Len(b1_run.mv), !.last_valid_move = 0,
                             !.num_extra_rounds = 1]
             ELSE [b1_run EXCEPT !.pc = "done"]
  /\ UNCHANGED b1_phg
  /\ UNCHANGED notr

\* lines 249-266: one iteration of the extra passes that reads a move of the buffer
B1ExtraLoop ==
  /\ b1_run.pc = "extra"
  /\ b1_run.nob > 0
  /\ b1_run.j = 0 => b1_run.last_valid_move # 0 /\ b1_run.num_extra_rounds < B1MaxExtraRounds
  /\ LET j1 == IF b1_run.j = 0 THEN b1_run.last_valid_move ELSE b1_run.j
         lv1 == IF b1_run.j = 0 THEN 0 ELSE b1_run.last_valid_move
         extra_rounds == IF b1_run.j = 0 THEN b1_run.num_extra_rounds + 1 ELSE b1_run.num_extra_rounds
         m == b1_run.mv[j1]
         s1 == IF isValid(m) /\ b1_run.pw[m.to] > LPMaxPartWeight
                 THEN revert_move(
                        [b1_run EXCEPT !.nob =
                           IF /\ b1_run.pw[m.from] + nodeWeight(m.node) > LPMaxPartWeight
                              /\ b1_run.pw[m.from] <= LPMaxPartWeight
                             THEN b1_run.nob + 1 ELSE b1_run.nob], j1)
                 ELSE b1_run
         lv2 == IF lv1 = 0 /\ isValid(s1.mv[j1]) THEN j1 ELSE lv1
     IN  b1_run' = [s1 EXCEPT !.j = j1 - 1, !.last_valid_move = lv2, !.num_extra_rounds = extra_rounds]
  /\ UNCHANGED b1_phg
  /\ UNCHANGED notr

\* lines 250-255: j and last_valid_move are both 0, so moves[j - 1] is read at
\* position size_t(-1), outside the buffer.  The behaviour is undefined: the
\* read faults, or it yields the bytes in front of the buffer and the loop goes
\* on behind the next decrement of j
B1ReadOutside ==
  /\ \/ b1_run.pc = "extra" /\ b1_run.nob > 0 /\ b1_run.j = 0 /\ b1_run.last_valid_move = 0
     \/ b1_run.pc = "outside"
  /\ \E outcome \in {"fault", "outside"} : b1_run' = [b1_run EXCEPT !.pc = outcome]
  /\ UNCHANGED b1_phg
  /\ UNCHANGED notr

\* line 249: no block is overloaded any more, the extra passes end
B1ExtraExit ==
  /\ b1_run.pc = "extra"
  /\ b1_run.nob = 0
  /\ b1_run' = [b1_run EXCEPT !.pc = "done"]
  /\ UNCHANGED b1_phg
  /\ UNCHANGED notr

B1Step ==
  B1Sort \/ B1FirstLoop \/ B1FirstExit \/ B1ExtraLoop \/ B1ReadOutside \/ B1ExtraExit

(***************************************************************************)
(*  Strategy B2 with recalculated gains (deterministic_label_propagation)  *)
(*  applyMovesSortedByGainWithRecalculation: the moves are sorted, every   *)
(*  hyperedge incident to a moved vertex is claimed by one thread, which   *)
(*  attributes the benefit and the penalty of the hyperedge to the moves   *)
(*  of its pins, and the best prefix of the sorted moves is applied.  The  *)
(*  function is entered with any partition and any buffer of moves in      *)
(*  which every vertex moves at most once.                                 *)
(***************************************************************************)
B2MaxGain == 2               \* the gains the moves were computed with are 1 .. B2MaxGain

\* std::numeric_limits<MoveID>::max(): no move of the vertex, and first_in of a
\* block no move enters; a number above every position, 2^31 - 1 here
invalid_move_id == 2147483647

\* the edge weights the strategy is tried with
B2EdgeWeights ==
  {[he \in LPHes |-> 1], [he \in LPHes |-> 1 + (he % LPMaxEdgeWeight)]}

\* the gains the buffered moves carry, which fix the sorted order only
B2Gains ==
  {[u \in LPNodeSet |-> 1], [u \in LPNodeSet |-> 1 + (u % B2MaxGain)]}

\* the buffers of moves of the partition part: every vertex has at most one move,
\* to a block other than its own (target[u] = part[u] stands for no move of u)
B2MoveSets(part) ==
  {{[node |-> u, from |-> part[u], to |-> target[u], gain |-> gain[u]] :
       u \in {v \in LPNodeSet : target[v] # part[v]}} :
     target \in [LPNodeSet -> LPBlocks] \ {part}, gain \in B2Gains}

\* move_pos_of_node[v] for the sorted moves mv: position + 1, invalid_move_id if
\* v has no move
move_pos_of_node(mv, v) ==
  LET at == {i \in 1..Len(mv) : mv[i].node = v}
  IN  IF at = {} THEN invalid_move_id ELSE CHOOSE i \in at : TRUE

was_node_moved_in_this_round(mv, v) == move_pos_of_node(mv, v) # invalid_move_id

SetMin(S, otherwise) == IF S = {} THEN otherwise ELSE CHOOSE x \in S : \A y \in S : x <= y
SetMax(S, otherwise) == IF S = {} THEN otherwise ELSE CHOOSE x \in S : \A y \in S : x >= y

\* lines 532-542: the RecalculationData of every block for hyperedge e
RecalculationData(part, mv, e) ==
  LET moved == {v \in LPPins[e] : was_node_moved_in_this_round(mv, v)}
  IN  [p \in LPBlocks |->
        [first_in |-> SetMin({move_pos_of_node(mv, v) :
                                v \in {x \in moved : mv[move_pos_of_node(mv, x)].to = p}},
                             invalid_move_id),
         last_out |-> SetMax({move_pos_of_node(mv, v) :
                                v \in {x \in moved : mv[move_pos_of_node(mv, x)].from = p}}, 0),
         remaining_pins |-> Cardinality({v \in LPPins[e] \ moved : part[v] = p})]]

\* line 549: the move m_id is the last to leave its block, before any move enters it
benefit(r, m, m_id) ==
  r[m.from].last_out = m_id /\ r[m.from].first_in > m_id /\ r[m.from].remaining_pins = 0

penalty_FirstInOnly(r, m, m_id) ==
  r[m.to].first_in = m_id /\ r[m.to].remaining_pins = 0

\* line 550: the move m_id is the first to enter its block, after all moves left it
penalty(r, m, m_id) ==
  r[m.to].first_in = m_id /\ r[m.to].last_out < m_id /\ r[m.to].remaining_pins = 0

\* lines 551-556: what hyperedge e of weight we adds to the gain of move m_id
RecalculatedDelta(r, m, m_id, we) ==
  (IF benefit(r, m, m_id) /\ ~penalty(r, m, m_id) THEN we ELSE 0)
  - (IF ~benefit(r, m, m_id) /\ penalty(r, m, m_id) THEN we ELSE 0)

prefixAllowed_Always(num_overloaded_blocks, num_overloaded_blocks_before_pass) == TRUE

\* line 623: the prefix leaves no more blocks overloaded than the pass started with
prefixAllowed(num_overloaded_blocks, num_overloaded_blocks_before_pass) ==
  num_overloaded_blocks <= num_overloaded_blocks_before_pass

\* lines 611-628: the loop over the sorted moves from position pos (counted from 1)
RECURSIVE selectPrefix(_, _, _, _, _, _, _, _)
selectPrefix(mv, pos, part_weights, num_overloaded_blocks, num_overloaded_blocks_before_pass, gain_sum, best_gain, best_index) ==
  IF pos > Len(mv) THEN [best_index |-> best_index, best_gain |-> best_gain]
  ELSE LET m == mv[pos]
           w == nodeWeight(m.node)
           nob == num_overloaded_blocks
                  - (IF /\ part_weights[m.from] > LPMaxPartWeight
                        /\ part_weights[m.from] - w <= LPMaxPartWeight THEN 1 ELSE 0)
                  + (IF /\ part_weights[m.to] <= LPMaxPartWeight
                        /\ part_weights[m.to] + w > LPMaxPartWeight THEN 1 ELSE 0)
           pw == [part_weights EXCEPT ![m.from] = @ - w, ![m.to] = @ + w]
           sum == gain_sum + m.gain
           better == prefixAllowed(nob, num_overloaded_blocks_before_pass) /\ sum >= best_gain
       IN  selectPrefix(mv, pos + 1, pw, nob, num_overloaded_blocks_before_pass, sum,
                        IF better THEN sum ELSE best_gain,
                        IF better THEN pos ELSE best_index)

\* the partition after the first n moves of mv
AfterPrefix(part, mv, n) ==
  [u \in LPNodeSet |->
     LET at == {i \in 1..n : mv[i].node = u}
     IN  IF at = {} THEN part[u] ELSE mv[CHOOSE i \in at : TRUE].to]

IdleB2 == b2_phg = << >> /\ b2_run = << >>

\* line 101: the strategy runs on a buffer that is not empty; the first call
\* finds last_recalc_round empty and fills it with 0 (lines 507-509).  The
\* strategy treats all blocks alike, so vertex 1 starts in block 0
InitB2 ==
  /\ \E part \in {p \in [LPNodeSet -> LPBlocks] : p[1] = 0}, ew \in B2EdgeWeights :
       b2_phg = [part |-> part, edge_weight |-> ew]
  /\ \E M \in B2MoveSets(b2_phg.part) :
       b2_run = [pc |-> "sort", mv |-> ByNode(M), part |-> b2_phg.part,
                 recalc_round |-> 1, last_recalc_round |-> [he \in LPHes |-> 0],
                 best_index |-> 0, best_gain |-> 0]

\* lines 515-524: the moves are sorted and numbered, their gains set to 0
B2Sort ==
  /\ b2_run.pc = "sort"
  /\ LET sorted == SortMoves(b2_run.mv)
     IN  b2_run' = [b2_run EXCEPT
                      !.pc = "recalc",
                      !.mv = [i \in 1..Len(sorted) |-> [sorted[i] EXCEPT !.gain = 0]]]
  /\ UNCHANGED b2_phg
  /\ UNCHANGED notg

\* lines 531-573: the thread of move pos claims the incident hyperedge e that no
\* thread has claimed in this round and attributes its weight to the moves of
\* its pins
B2RecalcEdge ==
  /\ b2_run.pc = "recalc"
  /\ \E e \in LPHes :
         /\ \E pos \in 1..Len(b2_run.mv) : e \in incidentEdges(b2_run.mv[pos].node)
         /\ b2_run.last_recalc_round[e] < b2_run.recalc_round
         /\ LET r == RecalculationData(b2_phg.part, b2_run.mv, e)
                we == b2_phg.edge_weight[e]
            IN  b2_run' =
                  [b2_run EXCEPT
                     !.last_recalc_round[e] = b2_run.recalc_round,
                     !.mv = [i \in 1..Len(b2_run.mv) |->
                               IF b2_run.mv[i].node \in LPPins[e]
                                 THEN [b2_run.mv[i] EXCEPT
                                         !.gain = @ + RecalculatedDelta(r, b2_run.mv[i], i, we)]
                                 ELSE b2_run.mv[i]]]
  /\ UNCHANGED b2_phg
  /\ UNCHANGED notg

\* lines 598-630: every hyperedge of a moved vertex is done; the overloaded
\* blocks are counted and the best prefix of the sorted moves is chosen
B2SelectPrefix ==
  /\ b2_run.pc = "recalc"
  /\ \A pos \in 1..Len(b2_run.mv) :
       \A e \in incidentEdges(b2_run.mv[pos].node) :
         b2_run.last_recalc_round[e] >= b2_run.recalc_round
  /\ LET part_weights == [b \in LPBlocks |-> partWeight(b2_phg.part, b)]
         before == Cardinality({b \in LPBlocks : part_weights[b] > LPMaxPartWeight})
         best == selectPrefix(b2_run.mv, 1, part_weights, before, before, 0, 0, 0)
     IN  b2_run' = [b2_run EXCEPT !.pc = "apply",
                                  !.best_index = best.best_index,
                                  !.best_gain = best.best_gain]
  /\ UNCHANGED b2_phg
  /\ UNCHANGED notg

\* lines 632-635: applyMovesIf moves the vertices of the moves [0, best_index)
B2Apply ==
  /\ b2_run.pc = "apply"
  /\ b2_run' = [b2_run EXCEPT !.pc = "done",
                              !.part = AfterPrefix(b2_phg.part, b2_run.mv, b2_run.best_index)]
  /\ UNCHANGED b2_phg
  /\ UNCHANGED notg

B2Step == B2Sort \/ B2RecalcEdge \/ B2SelectPrefix \/ B2Apply

(***************************************************************************)
(*  Hyperedge claims of strategy B2 (deterministic_label_propagation.cpp)  *)
(*  The threads of the gain recalculation, with the load and the exchange  *)
(*  of last_recalc_round[e] as separate steps, over consecutive calls of   *)
(*  applyMovesSortedByGainWithRecalculation on one refiner.  The 32-bit    *)
(*  counter recalc_round is scaled down to RecalcRoundMax + 1 values.      *)
(***************************************************************************)
RecalcThreads == 2           \* threads of the parallel_for, one moved vertex each
RecalcHes == 3               \* hyperedges
RecalcRoundMax == 3          \* stands for std::numeric_limits<uint32_t>::max()
RecalcMaxCalls == 5          \* calls of the strategy on one refiner

RecalcThreadSet == 1..RecalcThreads
RecalcHeSet == 1..RecalcHes

\* incidentEdges of the vertex thread t moves: hyperedge t and hyperedge t + 1,
\* so that neighbouring threads share a hyperedge
RecalcIncident(t) == {t, t + 1}

\* the hyperedges incident to a moved vertex
RecalcTouched == UNION {RecalcIncident(t) : t \in RecalcThreadSet}

IdleRC == recalc = << >> /\ recalc_thread = << >>

\* a refiner before the first call: last_recalc_round is empty, recalc_round has
\* its initial value 1
InitRC ==
  /\ recalc = [pc |-> "idle", calls |-> 0, recalc_round |-> 1,
               last_recalc_round |-> << >>,
               processed |-> [e \in RecalcHeSet |-> 0]]
  /\ recalc_thread = [t \in RecalcThreadSet |->
                        [pc |-> "off", todo |-> {}, e |-> 0, expected |-> 0]]

incrementRound_NoWrap(r) == r + 1

\* ++recalc_round on the unsigned counter
incrementRound(r) == (r + 1) % (RecalcRoundMax + 1)

\* lines 507-509 and 527: the call starts; last_recalc_round is filled with 0 if
\* it is empty or if the incremented recalc_round is the maximum (the counter is
\* not incremented when the vector is empty), then the parallel_for starts
RCEnter ==
  /\ recalc.pc = "idle"
  /\ recalc.calls < RecalcMaxCalls
  /\ LET wasEmpty == recalc.last_recalc_round = << >>
         r == IF wasEmpty THEN recalc.recalc_round ELSE incrementRound(recalc.recalc_round)
         fill == wasEmpty \/ r = RecalcRoundMax
     IN  recalc' = [recalc EXCEPT
                      !.pc = "recalc", !.calls = @ + 1, !.recalc_round = r,
                      !.last_recalc_round =
                         IF fill THEN [e \in RecalcHeSet |-> 0] ELSE @,
                      !.processed = [e \in RecalcHeSet |-> 0]]
  /\ recalc_thread' = [t \in RecalcThreadSet |->
                         [pc |-> "next", todo |-> RecalcIncident(t), e |-> 0, expected |-> 0]]
  /\ UNCHANGED notk

\* lines 531-532: the thread takes its next incident hyperedge and loads
\* last_recalc_round[e]
RCLoad(t) ==
  /\ recalc.pc = "recalc"
  /\ recalc_thread[t].pc = "next"
  /\ recalc_thread[t].todo # {}
  /\ LET e == CHOOSE x \in recalc_thread[t].todo : \A y \in recalc_thread[t].todo : x <= y
     IN  recalc_thread' = [recalc_thread EXCEPT
                             ![t] = [pc |-> "loaded", todo |-> @.todo \ {e}, e |-> e,
                                     expected |-> recalc.last_recalc_round[e]]]
  /\ UNCHANGED recalc
  /\ UNCHANGED notk

\* line 533: expected is not below recalc_round, the hyperedge is left alone
RCSkip(t) ==
  /\ recalc_thread[t].pc = "loaded"
  /\ ~(recalc_thread[t].expected < recalc.recalc_round)
  /\ recalc_thread' = [recalc_thread EXCEPT ![t].pc = "next"]
  /\ UNCHANGED recalc
  /\ UNCHANGED notk

\* line 533: the exchange; the thread that gets back the value it loaded
\* processes the hyperedge
RCExchange(t) ==
  /\ recalc_thread[t].pc = "loaded"
  /\ recalc_thread[t].expected < recalc.recalc_round
  /\ LET e == recalc_thread[t].e
         old == recalc.last_recalc_round[e]
     IN  /\ recalc' = [recalc EXCEPT !.last_recalc_round[e] = recalc.recalc_round]
         /\ recalc_thread' = [recalc_thread EXCEPT
                                ![t].pc = IF old = recalc_thread[t].expected
                                            THEN "process" ELSE "next"]
  /\ UNCHANGED notk

\* lines 534-572: the benefit and the penalty of the hyperedge are added to the
\* gains of the moves of its pins
RCProcess(t) ==
  /\ recalc_thread[t].pc = "process"
  /\ recalc' = [recalc EXCEPT !.processed[recalc_thread[t].e] = @ + 1]
  /\ recalc_thread' = [recalc_thread EXCEPT ![t].pc = "next"]
  /\ UNCHANGED notk

\* line 574: every thread is through its hyperedges, the parallel_for returns
RCLeave ==
  /\ recalc.pc = "recalc"
  /\ \A t \in RecalcThreadSet : recalc_thread[t].pc = "next" /\ recalc_thread[t].todo = {}
  /\ recalc' = [recalc EXCEPT !.pc = "idle"]
  /\ recalc_thread' = [t \in RecalcThreadSet |->
                         [pc |-> "off", todo |-> {}, e |-> 0, expected |-> 0]]
  /\ UNCHANGED notk

RCStep ==
  \/ RCEnter
  \/ \E t \in RecalcThreadSet : RCLoad(t) \/ RCSkip(t) \/ RCExchange(t) \/ RCProcess(t)
  \/ RCLeave

(***************************************************************************)
(*   Iterations of refineImpl (deterministic_label_propagation.cpp)        *)
(*  The loops over the iterations and the sub-rounds with their counters;  *)
(*  what the move calculation and the strategies return is chosen freely:  *)
(*  the number of computed moves, the gain of strategy A, whether it       *)
(*  reverted, and the number of moves it left in the buffer.               *)
(***************************************************************************)
RINumBuckets == 4            \* ParallelPermutation::num_buckets
RIMaxIterations == 3         \* context.refinement.label_propagation.maximum_iterations
RIMaxMoves == 2              \* moves computed in one sub-round
RIMaxGain == 1               \* gains of a strategy are -RIMaxGain .. RIMaxGain

IdleRI == refine = << >>

\* lines 49-50: num_sub_rounds_sync_lp is a number of sub-rounds the buckets can
\* be split into; recalculate_gains_on_second_apply is either value
InitRI ==
  \E n \in 1..RINumBuckets, recalc_cfg \in BOOLEAN :
    refine = [pc |-> "calc", iter |-> 0, sub_round |-> 0, num_sub_rounds |-> n,
              recalculate_gains_on_second_apply |-> recalc_cfg,
              num_moves |-> 0, increase_sub_rounds |-> FALSE,
              num_moves_in_sub_round |-> 0, sub_round_improvement |-> 0,
              residual |-> 0, reverted |-> FALSE, second |-> "none",
              last_num_moves |-> 0, last_increase |-> FALSE,
              last_num_sub_rounds |-> n]

\* lines 71-92: the moves of the sub-round are calculated
RICalculateMoves ==
  /\ refine.pc = "calc"
  /\ \E n \in 0..RIMaxMoves :
       refine' = [refine EXCEPT
                    !.pc = IF n > 0 THEN "strategy_a" ELSE "sub_end",
                    !.num_moves_in_sub_round = n,
                    !.sub_round_improvement = 0,
                    !.residual = n, !.reverted = FALSE, !.second = "none"]
  /\ UNCHANGED noti

secondStrategyRuns_AnyGain(improvement, size) == size > 0

\* line 97: the test in front of the second strategy
secondStrategyRuns(improvement, size) == improvement > 0 /\ size > 0

\* lines 93-97: strategy A returns its gain and whether it reverted (then the
\* gain it returns is not positive), and leaves the moves it did not select
RIStrategyA ==
  /\ refine.pc = "strategy_a"
  /\ \E gain \in (-RIMaxGain)..RIMaxGain, rev \in BOOLEAN,
        left \in 0..refine.num_moves_in_sub_round :
       /\ rev => gain <= 0 /\ left < refine.num_moves_in_sub_round
       /\ ~rev => gain >= 0
       /\ refine' = [refine EXCEPT
                       !.pc = IF secondStrategyRuns(gain, left) THEN "second" ELSE "sub_end",
                       !.sub_round_improvement = gain,
                       !.reverted = rev,
                       !.increase_sub_rounds = (@ \/ rev),
                       !.residual = left]
  /\ UNCHANGED noti

\* lines 98-102: the configured second strategy runs on the moves left
RISecondStrategy ==
  /\ refine.pc = "second"
  /\ \E gain \in 0..RIMaxGain :
       refine' = [refine EXCEPT
                    !.pc = "sub_end",
                    !.sub_round_improvement = @ + gain,
                    !.second = IF refine.recalculate_gains_on_second_apply
                                 THEN "B2" ELSE "B1"]
  /\ UNCHANGED noti

nextNumSubRounds_Uncapped(n, increase) ==
  IF increase THEN n * 2 ELSE n

\* lines 111-113: num_sub_rounds after an iteration
nextNumSubRounds(n, increase) ==
  IF increase THEN Min(RINumBuckets, n * 2) ELSE n

\* lines 105-117: the end of a sub-round, and of the iteration after the last one
RIEndSubRound ==
  /\ refine.pc = "sub_end"
  /\ LET nm == refine.num_moves + refine.num_moves_in_sub_round
     IN  refine' =
           IF refine.sub_round + 1 < refine.num_sub_rounds
             THEN [refine EXCEPT !.pc = "calc", !.sub_round = @ + 1, !.num_moves = nm]
             ELSE [refine EXCEPT
                     !.pc = IF nm = 0 \/ refine.iter + 1 >= RIMaxIterations
                              THEN "done" ELSE "calc",
                     !.iter = @ + 1,
                     !.sub_round = 0,
                     !.num_sub_rounds = nextNumSubRounds(@, refine.increase_sub_rounds),
                     !.num_moves = 0,
                     !.increase_sub_rounds = FALSE,
                     !.last_num_moves = nm,
                     !.last_increase = refine.increase_sub_rounds,
                     !.last_num_sub_rounds = refine.num_sub_rounds]
  /\ UNCHANGED noti

RIStep == RICalculateMoves \/ RIStrategyA \/ RISecondStrategy \/ RIEndSubRound

(***************************************************************************)
(*            SPMCQueue without concurrent pops  (work_stack.h)            *)
(*  push_back and try_pop_front as functions of the queue; one thread      *)
(*  calls them one after the other on a queue of small capacity.           *)
(***************************************************************************)
FifoMaxPush == 5             \* push_back calls on the queue
FifoInitCap == 2             \* capacity of the vector at construction
FifoMaxEl == 2               \* the elements pushed are 1..FifoMaxEl

IdleFifo == fifo = << >>

\* SPMCQueue(): clear(); elements.reserve(...)
InitFifo ==
  fifo = [q |-> [elements |-> << >>, front |-> 0, capacity |-> FifoInitCap],
          pushed |-> << >>, popped |-> << >>, last |-> "none"]

\* SPMCQueue::push_back: the queue after the call. With one thread the loop of
\* line 69 stores in_reallocation and ends on its second exchange; nobody reads
\* front before line 78 stores 0
push_back(q, el, unchecked_push) ==
  IF unchecked_push
  THEN [q EXCEPT !.elements = Append(@, el),
                 !.capacity = IF Len(q.elements) < @ THEN @ ELSE 2 * @]
  ELSE LET f == IF q.front > Len(q.elements) THEN Len(q.elements) ELSE q.front
       IN IF Len(q.elements) < q.capacity
          THEN [q EXCEPT !.elements = Append(@, el), !.front = f]
          ELSE [elements |-> MoveToFront(Append(q.elements, el), f),
                front |-> releasedFront(f),
                capacity |-> 2 * q.capacity]

\* one call of push_back<unchecked_push>(el)
FifoPush ==
  /\ fifo # << >>
  /\ Len(fifo.pushed) < FifoMaxPush
  /\ \E el \in 1..FifoMaxEl, unchecked_push \in BOOLEAN :
       fifo' = [fifo EXCEPT
                  !.q = push_back(@, el, unchecked_push),
                  !.pushed = Append(@, el),
                  !.last = IF ~unchecked_push /\ Len(fifo.q.elements) = fifo.q.capacity
                             THEN "realloc" ELSE "push"]
  /\ UNCHANGED noth

\* one call of try_pop_front that returns true
FifoPop ==
  /\ fifo # << >>
  /\ LET r == try_pop_front(fifo.q)
     IN /\ r.ok
        /\ fifo' = [fifo EXCEPT !.q = r.q, !.popped = Append(@, r.el), !.last = "pop"]
  /\ UNCHANGED noth

\* one call of try_pop_front that returns false
FifoPopFails ==
  /\ fifo # << >>
  /\ LET r == try_pop_front(fifo.q)
     IN /\ ~r.ok
        /\ fifo' = [fifo EXCEPT !.q = r.q, !.last = "empty"]
  /\ UNCHANGED noth

FifoStep == FifoPush \/ FifoPop \/ FifoPopFails

(***************************************************************************)
(*      The spin loop of WorkContainer::try_pop on one SPMCQueue           *)
(*  The producer and the consumers of the SPMCQueue specification, with    *)
(*  consumers that wait in the loop of line 169 for the queue to be        *)
(*  released; the producer's steps and the steps inside a call are fair.   *)
(***************************************************************************)

\* lines 168-169: a consumer whose pops failed finds the queue blocked and
\* enters the spin loop
SpinEnter(c) ==
  /\ cpc[c] = "idle"
  /\ currently_blocked([front |-> front])
  /\ cpc' = [cpc EXCEPT ![c] = "spin"]
  /\ UNCHANGED <<elements, capacity, front, ppc, pel, old_front,
                 front_spin_variable, cf, cslot, popped, nPushed>>
  /\ UNCHANGED notq

\* line 169: currently_blocked() returns false and the loop ends; the call goes
\* on with try_pop_front (line 170) and returns
SpinLeave(c) ==
  /\ cpc[c] = "spin"
  /\ ~currently_blocked([front |-> front])
  /\ cf' = [cf EXCEPT ![c] = front]
  /\ cpc' = [cpc EXCEPT ![c] = "check"]
  /\ UNCHANGED <<elements, capacity, front, ppc, pel, old_front,
                 front_spin_variable, cslot, popped, nPushed>>
  /\ UNCHANGED notq

SpinStep ==
  \/ QueueStep
  \/ \E c \in Consumers : SpinEnter(c)
  \/ \E c \in Consumers : SpinLeave(c)

\* a push_back that was called runs to its end, and so does a try_pop; calls
\* themselves are optional
SpinFairness ==
  /\ WF_vars(PushGuardStore) /\ WF_vars(PushCap) /\ WF_vars(PushCAS)
  /\ WF_vars(PushRealloc) /\ WF_vars(PushCompact) /\ WF_vars(PushRelease)
  /\ \A c \in Consumers :
       /\ WF_vars(PopCheck(c)) /\ WF_vars(PopFetch(c)) /\ WF_vars(PopSlot(c))
       /\ WF_vars(SpinLeave(c))

(***************************************************************************)
(*  Activation of neighbours, performMoveWithAttributedGain                *)
(*  (deterministic_label_propagation.cpp)                                  *)
(*  The threads of applyMovesIf apply one move each; every load, store and *)
(*  compare-exchange on last_moved_in_round is a step of its own.  A round *)
(*  is one iteration of refineImpl, a batch one call of applyMovesIf.      *)
(***************************************************************************)
ActNodes == 3                \* phg.initialNumNodes()
ActHes == 3                  \* hyperedges
ActThreads == 2              \* threads of applyMovesIf, one move each
ActRoundBits == 2            \* width of the round counter (uint32_t) in the model
hyperedge_size_activation_threshold == 2

ActNodeSet == 1..ActNodes
ActHeSet == 1..ActHes
ActThreadSet == 1..ActThreads

\* phg.pins(he): two hyperedges of size 2 that share vertex 2, and one hyperedge
\* above the threshold
ActPins(he) == IF he = 1 THEN {1, 2} ELSE IF he = 2 THEN {2, 3} ELSE {1, 2, 3}

\* phg.incidentEdges(v)
ActIncidentEdges(v) == {he \in ActHeSet : v \in ActPins(he)}

ActThreadOff ==
  [pc |-> "off", node |-> 0, hes |-> {}, he |-> 0, pins |-> {}, v |-> 0, lrv |-> 0]

IdleAct == activation = << >> /\ activator = << >>

\* a refiner before its first iteration: round and last_moved_in_round are 0
InitAct ==
  /\ activation = [pc |-> "idle", round |-> 0,
            last_moved_in_round |-> [x \in 1..(ActNodes + ActHes) |-> 0],
            appended |-> [v \in ActNodeSet |-> 0],
            moved |-> {}]
  /\ activator = [t \in ActThreadSet |-> ActThreadOff]

nextRound_NoWrap(r) == r + 1

\* ++round on the unsigned counter
nextRound(r) == (r + 1) % (2^ActRoundBits)

\* refineImpl, lines 53-55 and 65: the iteration starts; ++round, and
\* last_moved_in_round is filled with 0 when round wrapped to 0;
\* active_nodes.clear()
ActBeginRound ==
  /\ activation.pc \in {"idle", "round"}
  /\ LET r == nextRound(activation.round)
     IN  activation' = [activation EXCEPT
                   !.pc = "round", !.round = r,
                   !.last_moved_in_round =
                      IF r = 0 THEN [x \in 1..(ActNodes + ActHes) |-> 0] ELSE @,
                   !.appended = [v \in ActNodeSet |-> 0],
                   !.moved = {}]
  /\ UNCHANGED activator
  /\ UNCHANGED nota

\* applyMovesIf, lines 161-172, and changeNodePart of line 137: each thread
\* moves one vertex (or has no move), then activates the neighbours
ActApplyMoves ==
  /\ activation.pc = "round"
  /\ \E mv \in [ActThreadSet -> 0..ActNodes] :
       /\ \E t \in ActThreadSet : mv[t] # 0
       /\ \A t, u \in ActThreadSet : t # u /\ mv[t] # 0 => mv[t] # mv[u]
       /\ activation' = [activation EXCEPT !.pc = "apply",
                             !.moved = @ \cup ({mv[t] : t \in ActThreadSet} \ {0})]
       /\ activator' = [t \in ActThreadSet |->
                           IF mv[t] = 0 THEN ActThreadOff
                           ELSE [ActThreadOff EXCEPT !.pc = "next_he", !.node = mv[t],
                                                     !.hes = ActIncidentEdges(mv[t])]]
  /\ UNCHANGED nota

\* lines 141-143: the next incident hyperedge; one above the threshold is
\* skipped, of the others last_moved_in_round[he + n] is loaded
ActNextHe(t) ==
  /\ activator[t].pc = "next_he"
  /\ activator[t].hes # {}
  /\ LET he == CHOOSE x \in activator[t].hes : \A y \in activator[t].hes : x <= y
     IN  activator' = [activator EXCEPT
           ![t].hes = @ \ {he},
           ![t].he = he,
           ![t].lrv = activation.last_moved_in_round[ActNodes + he],
           ![t].pc = IF Cardinality(ActPins(he)) <= hyperedge_size_activation_threshold
                       THEN "he_loaded" ELSE "next_he"]
  /\ UNCHANGED activation
  /\ UNCHANGED nota

\* lines 143-145: the hyperedge was not seen in this round: it is stamped and
\* its pins are visited
ActStampHe(t) ==
  /\ activator[t].pc = "he_loaded"
  /\ IF activator[t].lrv # activation.round
     THEN /\ activation' = [activation EXCEPT !.last_moved_in_round[ActNodes + activator[t].he] = activation.round]
          /\ activator' = [activator EXCEPT ![t].pc = "next_pin",
                                              ![t].pins = ActPins(activator[t].he)]
     ELSE /\ activator' = [activator EXCEPT ![t].pc = "next_he"]
          /\ UNCHANGED activation
  /\ UNCHANGED nota

\* lines 145-146: the next pin, lrv = last_moved_in_round[v].load()
ActLoadPin(t) ==
  /\ activator[t].pc = "next_pin"
  /\ IF activator[t].pins = {}
     THEN activator' = [activator EXCEPT ![t].pc = "next_he"]
     ELSE LET v == CHOOSE x \in activator[t].pins : \A y \in activator[t].pins : x <= y
          IN  activator' = [activator EXCEPT
                ![t].pins = @ \ {v}, ![t].v = v,
                ![t].lrv = activation.last_moved_in_round[v],
                ![t].pc = "pin_loaded"]
  /\ UNCHANGED activation
  /\ UNCHANGED nota

\* lines 147-150: lrv != round && compare_exchange_strong(lrv, round), then
\* active_nodes.push_back_buffered(v)
ActActivatePin(t) ==
  /\ activator[t].pc = "pin_loaded"
  /\ LET v == activator[t].v
         exchanged == /\ activator[t].lrv # activation.round
                      /\ activation.last_moved_in_round[v] = activator[t].lrv
     IN  activation' = IF exchanged
                THEN [activation EXCEPT !.last_moved_in_round[v] = activation.round,
                                 !.appended[v] = @ + 1]
                ELSE activation
  /\ activator' = [activator EXCEPT ![t].pc = "next_pin"]
  /\ UNCHANGED nota

\* line 151-155: the thread is through the hyperedges of its vertex
ActThreadDone(t) ==
  /\ activator[t].pc = "next_he"
  /\ activator[t].hes = {}
  /\ activator' = [activator EXCEPT ![t] = ActThreadOff]
  /\ UNCHANGED activation
  /\ UNCHANGED nota

\* the parallel_reduce of applyMovesIf returns
ActEndApply ==
  /\ activation.pc = "apply"
  /\ \A t \in ActThreadSet : activator[t].pc = "off"
  /\ activation' = [activation EXCEPT !.pc = "round"]
  /\ UNCHANGED activator
  /\ UNCHANGED nota

ActStep ==
  \/ ActBeginRound
  \/ ActApplyMoves
  \/ \E t \in ActThreadSet : ActNextHe(t)
  \/ \E t \in ActThreadSet : ActStampHe(t)
  \/ \E t \in ActThreadSet : ActLoadPin(t)
  \/ \E t \in ActThreadSet : ActActivatePin(t)
  \/ \E t \in ActThreadSet : ActThreadDone(t)
  \/ ActEndApply

(***************************************************************************)
(*  GainDeltaStrategy (gain_delta_strategy.h)                              *)
(*  One localized search that keeps the km1 gains of its vertices as the   *)
(*  keys of the per-block priority queues.  The number of blocks k is      *)
(*  chosen at the start; every hyperedge has weight 1.                     *)
(***************************************************************************)
GDNodes == 3                 \* vertices
GDHes == 3                   \* hyperedges
GDMaxK == 3                  \* largest number of blocks context.partition.k
GDMaxPartWeight == 3         \* context.partition.max_part_weights[i], unit vertex weights

GDNodeSet == 1..GDNodes
GDHeSet == 1..GDHes
GDBlocks(k) == 0..(k - 1)

\* phg.pins(he)
GDPins(he) == IF he = 1 THEN {1, 2} ELSE IF he = 2 THEN {2, 3} ELSE {1, 2, 3}

\* phg.incidentEdges(v)
GDIncidentEdges(v) == {he \in GDHeSet : v \in GDPins(he)}

\* phg.edgeWeight(he)
GDEdgeWeight(he) == 1

\* phg.pinCountInPart(he, i) for the partition pt
GDPinCountInPart(pt, he, i) == Cardinality({u \in GDPins(he) : pt[u] = i})

\* phg.partWeight(i)
GDPartWeight(pt, i) == Cardinality({u \in GDNodeSet : pt[u] = i})

\* Km1GainComputer::computeGains, gains[i]: the km1 gain of moving u to block
\* i: the weight of the hyperedges in which u is the only pin of its block
\* minus the weight of the hyperedges that have no pin in block i
GDKm1Gain(pt, u, i) ==
  Cardinality({he \in GDIncidentEdges(u) : GDPinCountInPart(pt, he, pt[u]) = 1})
    - Cardinality({he \in GDIncidentEdges(u) : GDPinCountInPart(pt, he, i) = 0})

GDNoMove == [node |-> 0, from |-> 0, to |-> 0, gain |-> 0]

IdleGD == gd = << >>

\* a search with empty queues on any partition into k blocks
InitGD ==
  \E k \in 2..GDMaxK : \E pt \in [GDNodeSet -> GDBlocks(k)] :
    gd = [pc |-> "idle", k |-> k, part |-> pt,
          vertexPQs |-> [i \in GDBlocks(GDMaxK) |-> << >>],
          m |-> GDNoMove, pending |-> {}, moved |-> {}, pre |-> TRUE]

\* the vertices stored in some queue
GDInQueues(pqs) == UNION {DOMAIN pqs[i] : i \in DOMAIN pqs}

\* every key is the km1 gain: each vertex of the search is stored in the queue
\* of every block but its own, with the gain of moving it there
GDKeysMatch(k, pt, pqs) ==
  \A u \in GDInQueues(pqs) : \A i \in GDBlocks(k) \ {pt[u]} :
    /\ u \in DOMAIN pqs[i]
    /\ pqs[i][u] = GDKm1Gain(pt, u, i)

\* insertIntoPQ, lines 60-69
insertIntoPQ(k, pt, pqs, v) ==
  [i \in DOMAIN pqs |->
     IF i \in GDBlocks(k) /\ i # pt[v]
     THEN [x \in DOMAIN pqs[i] \cup {v} |-> IF x = v THEN GDKm1Gain(pt, v, i) ELSE pqs[i][x]]
     ELSE pqs[i]]

\* vertexPQs[i].topKey()
GDTopKey(pq) == CHOOSE g \in {pq[x] : x \in DOMAIN pq} : \A x \in DOMAIN pq : pq[x] <= g

\* findBestTargetBlock, lines 212-228: the first block in index order whose
\* top key is the largest, ties broken by the smaller block weight; -1 is
\* kInvalidPartition
GDCandidates(k, pt, pqs) ==
  {i \in GDBlocks(k) : DOMAIN pqs[i] # {} /\ GDPartWeight(pt, i) < GDMaxPartWeight}

GDBetter(pt, pqs, i, j) ==
  \/ GDTopKey(pqs[i]) > GDTopKey(pqs[j])
  \/ GDTopKey(pqs[i]) = GDTopKey(pqs[j]) /\ GDPartWeight(pt, i) < GDPartWeight(pt, j)

findBestTargetBlock(k, pt, pqs) ==
  IF GDCandidates(k, pt, pqs) = {} THEN -1
  ELSE CHOOSE i \in GDCandidates(k, pt, pqs) :
         \A j \in GDCandidates(k, pt, pqs) \ {i} :
           \/ GDBetter(pt, pqs, i, j)
           \/ ~GDBetter(pt, pqs, j, i) /\ i < j

\* the lambda some_other_block, line 131
some_other_block(k, i) == k - 1 - i

\* the lambda in_search, lines 135-137
in_search(k, pt, pqs, u) == u \in DOMAIN pqs[some_other_block(k, pt[u])]

\* the lambdas increase and decrease, lines 139-147, for a set U of vertices
\* and a set B of blocks: adjustKey(u, getKey(u) + d)
GDAdjust(pqs, U, B, d) ==
  [i \in DOMAIN pqs |->
     IF i \in B THEN [x \in DOMAIN pqs[i] |-> IF x \in U THEN pqs[i][x] + d ELSE pqs[i][x]]
     ELSE pqs[i]]

\* deltaGainUpdates, lines 149-188, for one hyperedge: first the branch on
\* pin_count_in_from_part_after, then the one on pin_count_in_to_part_after
deltaGainUpdates(k, pt, pqs, he, he_weight, from, from_after, to, to_after) ==
  LET searched == {u \in GDPins(he) : in_search(k, pt, pqs, u)}
      afterFrom ==
        IF from_after = 1
        THEN GDAdjust(pqs, {u \in searched : pt[u] = from}, GDBlocks(k) \ {from}, he_weight)
        ELSE IF from_after = 0
        THEN GDAdjust(pqs, searched, {from}, 0 - he_weight)
        ELSE pqs
  IN  IF to_after = 1
      THEN GDAdjust(afterFrom, searched, {to}, he_weight)
      ELSE IF to_after = 2
      THEN GDAdjust(afterFrom, {u \in searched : pt[u] = to}, GDBlocks(k) \ {to}, 0 - he_weight)
      ELSE afterFrom

\* the search inserts a vertex it owns and has not moved (insertIntoPQ)
GDInsert(v) ==
  /\ gd.pc \in {"idle", "updated"}
  /\ v \notin GDInQueues(gd.vertexPQs)
  /\ v \notin gd.moved
  /\ gd' = [gd EXCEPT !.pc = "idle",
                      !.vertexPQs = insertIntoPQ(gd.k, gd.part, gd.vertexPQs, v)]
  /\ UNCHANGED notd

\* findNextMove, lines 79-96, and the move of the vertex: the top of the
\* target queue (any vertex with the top key) leaves every queue, the
\* partition changes, the incident hyperedges wait for their gain updates
GDFindNextMove ==
  /\ gd.pc \in {"idle", "updated"}
  /\ LET target == findBestTargetBlock(gd.k, gd.part, gd.vertexPQs)
     IN  /\ target # -1
         /\ \E u \in DOMAIN gd.vertexPQs[target] :
              /\ gd.vertexPQs[target][u] = GDTopKey(gd.vertexPQs[target])
              /\ gd' = [gd EXCEPT
                   !.pc = "update",
                   !.m = [node |-> u, from |-> gd.part[u], to |-> target,
                          gain |-> gd.vertexPQs[target][u]],
                   !.vertexPQs = [i \in DOMAIN gd.vertexPQs |->
                                    [x \in DOMAIN gd.vertexPQs[i] \ {u} |-> gd.vertexPQs[i][x]]],
                   !.part = [gd.part EXCEPT ![u] = target],
                   !.pending = GDIncidentEdges(u),
                   !.moved = @ \cup {u},
                   !.pre = GDKeysMatch(gd.k, gd.part, gd.vertexPQs)]
  /\ UNCHANGED notd

\* deltaGainUpdates for one hyperedge incident to the moved vertex, with the
\* pin counts of the hyperedge after the move
GDDeltaGainUpdates(he) ==
  /\ gd.pc = "update"
  /\ he \in gd.pending
  /\ gd' = [gd EXCEPT
           !.pc = IF gd.pending = {he} THEN "updated" ELSE "update",
           !.pending = @ \ {he},
           !.vertexPQs = deltaGainUpdates(gd.k, gd.part, gd.vertexPQs, he, GDEdgeWeight(he),
                                          gd.m.from, GDPinCountInPart(gd.part, he, gd.m.from),
                                          gd.m.to, GDPinCountInPart(gd.part, he, gd.m.to))]
  /\ UNCHANGED notd

\* clearPQs, lines 119-121: the search ends, the next one starts empty
GDClearPQs ==
  /\ gd.pc \in {"idle", "updated"}
  /\ gd.moved # {}
  /\ gd' = [gd EXCEPT !.pc = "idle",
                      !.vertexPQs = [i \in DOMAIN gd.vertexPQs |-> << >>],
                      !.m = GDNoMove, !.moved = {}, !.pre = TRUE]
  /\ UNCHANGED notd

GDStep ==
  \/ \E v \in GDNodeSet : GDInsert(v)
  \/ GDFindNextMove
  \/ \E he \in GDHeSet : GDDeltaGainUpdates(he)
  \/ GDClearPQs

(***************************************************************************)
(*                             Specifications                              *)
(***************************************************************************)

StartQueue == InitQueue /\ IdleEdge /\ IdlePrefix /\ IdleCut /\ IdleLP /\ IdleFM /\ IdleWC /\ IdleSched /\ IdleBP /\ IdleB1 /\ IdleB2 /\ IdleRC /\ IdleRI /\ IdleFifo /\ IdleAct /\ IdleGD
SpecQueue == StartQueue /\ [][QueueStep]_vars

StartEdge == InitEdge /\ IdleQueue /\ IdlePrefix /\ IdleCut /\ IdleLP /\ IdleFM /\ IdleWC /\ IdleSched /\ IdleBP /\ IdleB1 /\ IdleB2 /\ IdleRC /\ IdleRI /\ IdleFifo /\ IdleAct /\ IdleGD
SpecEdge == StartEdge /\ [][EdgeStep]_vars

StartPrefix == InitPrefix /\ IdleQueue /\ IdleEdge /\ IdleCut /\ IdleLP /\ IdleFM /\ IdleWC /\ IdleSched /\ IdleBP /\ IdleB1 /\ IdleB2 /\ IdleRC /\ IdleRI /\ IdleFifo /\ IdleAct /\ IdleGD
SpecPrefix == StartPrefix /\ [][PrefixStep]_vars

StartCut == InitCut /\ IdleQueue /\ IdleEdge /\ IdlePrefix /\ IdleLP /\ IdleFM /\ IdleWC /\ IdleSched /\ IdleBP /\ IdleB1 /\ IdleB2 /\ IdleRC /\ IdleRI /\ IdleFifo /\ IdleAct /\ IdleGD
SpecCut == StartCut /\ [][CutStep]_vars

StartLP == InitLP /\ IdleQueue /\ IdleEdge /\ IdlePrefix /\ IdleCut /\ IdleFM /\ IdleWC /\ IdleSched /\ IdleBP /\ IdleB1 /\ IdleB2 /\ IdleRC /\ IdleRI /\ IdleFifo /\ IdleAct /\ IdleGD
SpecLP == StartLP /\ [][LPStep]_vars

StartFM == InitFM /\ IdleQueue /\ IdleEdge /\ IdlePrefix /\ IdleCut /\ IdleLP /\ IdleWC /\ IdleSched /\ IdleBP /\ IdleB1 /\ IdleB2 /\ IdleRC /\ IdleRI /\ IdleFifo /\ IdleAct /\ IdleGD
SpecFM == StartFM /\ [][FMStep]_vars

StartWC == InitWC /\ IdleQueue /\ IdleEdge /\ IdlePrefix /\ IdleCut /\ IdleLP /\ IdleFM /\ IdleSched /\ IdleBP /\ IdleB1 /\ IdleB2 /\ IdleRC /\ IdleRI /\ IdleFifo /\ IdleAct /\ IdleGD
SpecWC == StartWC /\ [][WCStep]_vars

StartSched == InitSched /\ IdleQueue /\ IdleEdge /\ IdlePrefix /\ IdleCut /\ IdleLP /\ IdleFM /\ IdleWC /\ IdleBP /\ IdleB1 /\ IdleB2 /\ IdleRC /\ IdleRI /\ IdleFifo /\ IdleAct /\ IdleGD
SpecSched == StartSched /\ [][SchedStep]_vars

StartBP == InitBP /\ IdleQueue /\ IdleEdge /\ IdlePrefix /\ IdleCut /\ IdleLP /\ IdleFM /\ IdleWC /\ IdleSched /\ IdleB1 /\ IdleB2 /\ IdleRC /\ IdleRI /\ IdleFifo /\ IdleAct /\ IdleGD
SpecBP == StartBP /\ [][BPStep]_vars

StartB1 == InitB1 /\ IdleQueue /\ IdleEdge /\ IdlePrefix /\ IdleCut /\ IdleLP /\ IdleFM /\ IdleWC /\ IdleSched /\ IdleBP /\ IdleB2 /\ IdleRC /\ IdleRI /\ IdleFifo /\ IdleAct /\ IdleGD
SpecB1 == StartB1 /\ [][B1Step]_vars

StartB2 == InitB2 /\ IdleQueue /\ IdleEdge /\ IdlePrefix /\ IdleCut /\ IdleLP /\ IdleFM /\ IdleWC /\ IdleSched /\ IdleBP /\ IdleB1 /\ IdleRC /\ IdleRI /\ IdleFifo /\ IdleAct /\ IdleGD
SpecB2 == StartB2 /\ [][B2Step]_vars

StartRC == InitRC /\ IdleQueue /\ IdleEdge /\ IdlePrefix /\ IdleCut /\ IdleLP /\ IdleFM /\ IdleWC /\ IdleSched /\ IdleBP /\ IdleB1 /\ IdleB2 /\ IdleRI /\ IdleFifo /\ IdleAct /\ IdleGD
SpecRC == StartRC /\ [][RCStep]_vars

StartRI == InitRI /\ IdleQueue /\ IdleEdge /\ IdlePrefix /\ IdleCut /\ IdleLP /\ IdleFM /\ IdleWC /\ IdleSched /\ IdleBP /\ IdleB1 /\ IdleB2 /\ IdleRC /\ IdleFifo /\ IdleAct /\ IdleGD
SpecRI == StartRI /\ [][RIStep]_vars

StartFifo == InitFifo /\ IdleQueue /\ IdleEdge /\ IdlePrefix /\ IdleCut /\ IdleLP /\ IdleFM /\ IdleWC /\ IdleSched /\ IdleBP /\ IdleB1 /\ IdleB2 /\ IdleRC /\ IdleRI /\ IdleAct /\ IdleGD
SpecFifo == StartFifo /\ [][FifoStep]_vars

StartAct == InitAct /\ IdleQueue /\ IdleEdge /\ IdlePrefix /\ IdleCut /\ IdleLP /\ IdleFM /\ IdleWC /\ IdleSched /\ IdleBP /\ IdleB1 /\ IdleB2 /\ IdleRC /\ IdleRI /\ IdleFifo /\ IdleGD
SpecAct == StartAct /\ [][ActStep]_vars

StartGD == InitGD /\ IdleQueue /\ IdleEdge /\ IdlePrefix /\ IdleCut /\ IdleLP /\ IdleFM /\ IdleWC /\ IdleSched /\ IdleBP /\ IdleB1 /\ IdleB2 /\ IdleRC /\ IdleRI /\ IdleFifo /\ IdleAct
SpecGD == StartGD /\ [][GDStep]_vars

SpecSpinFair == StartQueue /\ [][SpinStep]_vars /\ SpinFairness

(***************************************************************************)
(*                                 Claims                                  *)
(***************************************************************************)

\* C1: when parallel_prefix_sum has finished, every output position i holds
\* in[0] + ... + in[i] (wrapping), which is what std::partial_sum and
\* sequential_prefix_sum yield, for every split into blocks and every
\* interleaving of the blocks; no output position keeps its old content and
\* the input is untouched when the output is a range of its own.
C1_ParallelEqualsSequential ==
  (PrefixDone /\ ~inplace) =>
     /\ mem_out = PartialSum(orig)
     /\ \A i \in 1..Len(orig) : mem_out[i] # OldOutValue
     /\ mem_in = orig

\* C1 witness: a finished call on two blocks whose sums wrap around
C1_Witness ==
  /\ PrefixDone /\ ~inplace /\ Len(bounds_) = 3 /\ Len(orig) = MaxN
  /\ \E i \in 2..Len(orig) : mem_out[i] < mem_out[i - 1]

\* C2: an in-place call (out = first) leaves the partial sums of the original
\* input in the range, and no block still has to read an index that some block
\* has already overwritten.
C2_InplaceCorrect ==
  inplace =>
     /\ PrefixDone => mem_in = PartialSum(orig)
     /\ \A b \in Blocks : ToRead(b) \cap written = {}

\* C2 witness: in-place, the first block has written while the second still reads
C2_Witness ==
  /\ inplace /\ Len(bounds_) = 3
  /\ bpc[1] \in {"final", "done"} /\ written # {}
  /\ bpc[2] = "pre" /\ bcur[2] > bounds_[2]

\* C2 witness at the end is reached too
C2_DoneWitness == inplace /\ PrefixDone /\ Len(bounds_) = 3 /\ mem_in # orig

\* C7: at most one search owns a quotient-graph edge at a time: the searches
\* that acquired edge e and have not released it are at most one, ownership
\* holds that search's id (INVALID_SEARCH_ID when there is none), and every
\* successful acquire but the first is preceded by a release.
C7_EdgeOwnedByAtMostOne ==
  \A e \in QGEdges :
    /\ Cardinality(Owners(e)) <= 1
    /\ (Owners(e) = {}) <=> (ownership[e] = INVALID_SEARCH_ID)
    /\ \A t \in Owners(e) : ownership[e] = held[t].id
    /\ acquires[e] - releases[e] = Cardinality(Owners(e))

\* C7 witness: an edge is owned for the second time while the other thread,
\* which owned it before, owns another edge
C7_Witness ==
  \E e \in QGEdges, t \in Threads :
    /\ Owners(e) = {t} /\ acquires[e] = 2 /\ releases[e] = 1
    /\ \E t2 \in Threads \ {t} : held[t2] # NoSearch

\* C8: while the producer reallocates and compacts the storage, front holds a
\* value >= in_reallocation (so that no consumer obtains or reads a slot).
C8_FrontBlockedDuringRealloc ==
  Reallocating => front >= in_reallocation

\* C9: every element returned by a successful pop was pushed, and no pushed
\* element is returned by more than one successful pop.
C9_PoppedOnceAndPushed ==
  \A el \in 1..MaxPush :
    /\ popped[el] <= 1
    /\ popped[el] > 0 => (el <= nPushed \/ (el = pel /\ ppc # "idle"))

C4_AppliedGainNotNegative ==
  \A t \in FMThreadSet :
    Finished(t) =>
      SumFn([id \in 1..Len(moveTracker) |-> moveTracker[id].gain], AppliedMoveIDs(t)) >= 0

\* C5: after a search in global mode has ended, localMoveIDs is the first
\* bestImprovementIndex logged moves, these are applied and valid, every later
\* move was moved back in reverse order of application and is invalidated, and
\* every node no other search moved is where the partition before the search
\* with that prefix applied puts it.
C5_GlobalRollback ==
  perform_moves_global =>
    \A t \in FMThreadSet :
      Finished(t) =>
        LET s == fm[t]
            all == s.insertedIDs
            n == Len(all)
            best == s.bestImprovementIndex
            prefixNodes == {moveTracker[all[j]].node : j \in 1..best}
        IN /\ best <= n
           /\ s.localMoveIDs = SubSeq(all, 1, best)
           /\ \A j \in 1..n :
                LET mv == moveTracker[all[j]] IN
                  IF j <= best THEN mv.valid /\ partID[mv.node] = mv.to
                  ELSE ~mv.valid /\ partID[mv.node] = mv.from /\ mv.from = s.startPart[mv.node]
           /\ s.revertedIDs = [j \in 1..(n - best) |-> all[n + 1 - j]]
           /\ \A v \in FMNodeSet :
                (\A id \in 1..Len(moveTracker) :
                   moveTracker[id].node = v => \E j \in 1..n : all[j] = id)
                => (v \notin prefixNodes => partID[v] = s.startPart[v])

\* C5 witness: a search in global mode ended that kept a prefix of its moves
\* and moved a later move back
C5_Witness ==
  /\ perform_moves_global
  /\ \E t \in FMThreadSet :
       /\ Finished(t)
       /\ fm[t].bestImprovementIndex >= 1
       /\ Len(fm[t].insertedIDs) > fm[t].bestImprovementIndex

\* C5 witness: a search in global mode ended with bestImprovementIndex = 0
\* after it had applied moves
C5_WitnessAllReverted ==
  /\ perform_moves_global
  /\ \E t \in FMThreadSet :
       /\ Finished(t)
       /\ fm[t].bestImprovementIndex = 0
       /\ Len(fm[t].insertedIDs) >= 2

\* C6 as stated: a vertex is contained in the vertex priority queues of at
\* most one search at a time.
C6_InPQsOfAtMostOneSearch ==
  \A v \in FMNodeSet :
    Cardinality({t \in FMThreadSet : v \in PQNodes(fm[t].vertexPQs)}) <= 1

\* C6: a vertex in a vertex priority queue of a search, which the search has
\* not yet released in clearPQs, is marked with the id of this search in the
\* node tracker; so at most one search holds it this way.
C6_InPQOnlyOfOwningSearch ==
  \A t \in FMThreadSet : \A v \in PQNodes(fm[t].vertexPQs) :
    (fm[t].pc # "release" \/ v \in fm[t].toRelease) =>
      /\ searchOfNode[v] = fm[t].thisSearch
      /\ \A t2 \in FMThreadSet \ {t} : fm[t2].thisSearch # fm[t].thisSearch

\* C6 witness: two searches are in their move loops with non-empty vertex
\* priority queues, and a vertex in the queues of the one shares a hyperedge
\* with a vertex the other has moved
C6_Witness ==
  \E t1 \in FMThreadSet : \E t2 \in FMThreadSet \ {t1} :
    /\ fm[t1].pc \in {"loop", "move"} /\ fm[t2].pc \in {"loop", "move"}
    /\ PQNodes(fm[t2].vertexPQs) # {}
    /\ fm[t2].moves > 0
    /\ \E v \in PQNodes(fm[t1].vertexPQs) : \E e \in FMHes :
         /\ v \in FMPins[e]
         /\ \E u \in FMPins[e] \ {v} :
              \/ fm[t2].part_ids_delta[u] # kInvalidPartition
              \/ \E j \in 1..Len(fm[t2].localMoveIDs) :
                   moveTracker[fm[t2].localMoveIDs[j]].node = u

\* C15: SPMCQueue::empty() returns true iff the queue holds no element that is
\* still to be popped, that is iff unsafe_size() = 0.
C15_EmptyIffNoElement ==
  ppc # "off" => (empty <=> unsafe_size = 0)


\* C11: once no call is in progress, was_pushed_and_removed(v) is true iff a
\* successful try_pop returned v since the last clear() and no push_back
\* has appended v again since; after clear() it is false for every vertex.
C11_RemovedIffPoppedNotRepushed ==
  WCQuiescent =>
    \A v \in WCNodeSet : wc_was_pushed_and_removed(v) <=> v \in removedSinceClear


\* C17: the counter `current` never wraps around and current + 1 never
\* overflows, and a timestamp that was not stored in the running round
\* equals neither current nor current + 1.
C17_CurrentNeverWraps ==
  /\ ~counterWrapped
  /\ wc_current + 1 <= TimestampMax
  /\ \A v \in WCNodeSet \ writtenThisRound :
       wc_timestamps[v] \notin {wc_current, wc_current + 1}

\* the counter was restarted by a clear() after a round in which a queue grew
C17_Witness ==
  /\ wc_current = current
  /\ wcPushes = 0
  /\ \E t \in WCThreadSet : tls_queues[t].capacity > WCInitCap
  /\ C17_CurrentNeverWraps

Km1OfPinCounts ==
  SumFn([he \in LPHes |->
           edge_weight[he] * (Cardinality({b \in LPBlocks : pin_count[he][b] > 0}) - 1)],
        LPHes)

\* the objective plus the gains refineImpl and the running strategy have summed up
ObjectivePlusGains ==
  Km1OfPinCounts + overall_improvement
  + (IF lpc # "done" THEN round_improvement ELSE 0)
  + (IF lpc \in {"strategy_b1", "b_apply", "b_revert", "sub_end"}
       THEN sub_round_improvement ELSE 0)
  + (IF Applying THEN my_gain ELSE 0)

\* applyMovesIf has run all its iterations
ApplyFinished == Applying /\ \A p \in 1..Len(tasks) : tasks[p].st \in {"skip", "done"}

C14_WitnessB1 ==
  /\ lpc = "b_revert" /\ ApplyFinished
  /\ \E p \in 1..Len(tasks) : tasks[p].st = "done"
  /\ my_gain = 0


\* the move the search of thread t is about to make is declined: there is no
\* destination block, or changeNodePart refuses it because of the part weights
MoveDeclined(t) ==
  LET mv == fm[t].m
      phg == PhgOf(t)
  IN \/ mv.to = kInvalidPartition
     \/ fmPartWeight(phg, mv.to) + nodeWeight(mv.node)
          > Max(max_part_weights[mv.to], fmPartWeight(phg, mv.from))

\* C18: a declined move leaves the partition (global and delta), the local
\* move log, the move tracker, estimatedImprovement and bestImprovementIndex
\* unchanged and the search goes on with its loop; a deactivated vertex stays
\* deactivated.
C18_DeclinedMoveChangesNothing ==
  /\ [][\A t \in FMThreadSet :
          (fm[t].pc = "move" /\ fm'[t] # fm[t] /\ MoveDeclined(t)) =>
             /\ partID' = partID
             /\ fm'[t].part_ids_delta = fm[t].part_ids_delta
             /\ fm'[t].localMoves = fm[t].localMoves
             /\ fm'[t].localMoveIDs = fm[t].localMoveIDs
             /\ moveTracker' = moveTracker
             /\ fm'[t].estimatedImprovement = fm[t].estimatedImprovement
             /\ fm'[t].bestImprovement = fm[t].bestImprovement
             /\ fm'[t].bestImprovementIndex = fm[t].bestImprovementIndex
             /\ fm'[t].pc = "loop"
             /\ searchOfNode'[fm[t].m.node] = deactivatedNodeMarker]_vars
  /\ [][\A v \in FMNodeSet :
          searchOfNode[v] = deactivatedNodeMarker =>
             searchOfNode'[v] = deactivatedNodeMarker]_vars

\* a search goes on after it declined the move of a vertex: the vertex is
\* deactivated, in no move log and in no vertex PQ
C18_Witness ==
  \E t \in FMThreadSet, v \in FMNodeSet :
    /\ fm[t].pc = "loop"
    /\ searchOfNode[v] = deactivatedNodeMarker
    /\ \A id \in 1..Len(moveTracker) : moveTracker[id].node # v
    /\ \A u \in FMThreadSet :
         /\ \A j \in 1..Len(fm[u].localMoves) : fm[u].localMoves[j].node # v
         /\ fm[u].m.node # v
         /\ u # t => fm[u].pc = "idle" /\ fm[u].result = "none"

\* C19: in delta mode the global partitioned hypergraph and the move tracker
\* change only in applyMovesOnGlobalHypergraph: its first loop applies the
\* moves localMoves[0 .. bestImprovementIndex) one after the other in their
\* order, and every other step of a search leaves them unchanged.
C19_DeltaModeFrame ==
  [][~perform_moves_global =>
       \A t \in FMThreadSet :
         fm'[t] # fm[t] =>
           IF fm[t].pc = "apply" /\ moveTracker' # moveTracker
           THEN LET mv == fm[t].localMoves[fm[t].i + 1]
                IN /\ fm[t].i < fm[t].bestImprovementIndex
                   /\ fm[t].i = Len(fm[t].localMoveIDs)
                   /\ fm'[t].i = fm[t].i + 1
                   /\ partID' = [partID EXCEPT ![mv.node] = mv.to]
                   /\ Len(moveTracker') = Len(moveTracker) + 1
                   /\ moveTracker'[Len(moveTracker')].node = mv.node
           ELSE IF fm[t].pc = "rollback"
           THEN \A v \in FMNodeSet :
                  partID'[v] # partID[v] =>
                    \E j \in 1..fm[t].bestImprovementIndex :
                      fm[t].localMoves[j].node = v /\ partID'[v] = fm[t].localMoves[j].from
           ELSE partID' = partID /\ moveTracker' = moveTracker]_vars

\* a search in delta mode has made more moves than its best prefix holds and
\* has applied exactly the prefix on the global hypergraph
C19_Witness ==
  /\ ~perform_moves_global
  /\ \E t \in FMThreadSet :
       /\ fm[t].pc = "apply"
       /\ fm[t].i = fm[t].bestImprovementIndex
       /\ fm[t].i >= 1
       /\ Len(fm[t].localMoves) > fm[t].bestImprovementIndex
       /\ \A j \in 1..Len(fm[t].localMoves) :
            (partID[fm[t].localMoves[j].node] = fm[t].localMoves[j].to)
               <=> j <= fm[t].bestImprovementIndex


\* applyMovesOnGlobalHypergraph of the search of thread t has returned through
\* its second rollback: the replayed moves had a negative attributed gain
ReplayRolledBack(t) ==
  /\ ~perform_moves_global
  /\ Finished(t)
  /\ Len(fm[t].insertedIDs) >= 1
  /\ fm[t].appliedImprovement < 0

\* the attributed gain of the first n replayed moves of the search of thread t
RECURSIVE ReplayGain(_, _)
ReplayGain(t, n) ==
  IF n = 0 THEN 0
  ELSE ReplayGain(t, n - 1) + moveTracker[fm[t].insertedIDs[n]].gain

\* the positions of the replayed moves that are left applied
KeptMoves(t) ==
  {j \in 1..Len(fm[t].insertedIDs) : moveTracker[fm[t].insertedIDs[j]].valid}

\* C20: after a replay with a negative total attributed gain the moves left
\* applied are a prefix of the replayed sequence of maximal cumulative
\* attributed gain (the empty one when every other prefix is negative), the
\* other replayed moves are moved back and invalid, and the returned index is
\* the number of moves left applied.
C20_KeptPrefixIsBest ==
  \A t \in FMThreadSet :
    ReplayRolledBack(t) =>
      LET n == Cardinality(KeptMoves(t))
      IN /\ KeptMoves(t) = 1..n
         /\ \A m \in 0..Len(fm[t].insertedIDs) : ReplayGain(t, n) >= ReplayGain(t, m)
         /\ \A j \in (1..Len(fm[t].insertedIDs)) \ KeptMoves(t) :
              partID[moveTracker[fm[t].insertedIDs[j]].node]
                = moveTracker[fm[t].insertedIDs[j]].from
         /\ fm[t].bestImprovementIndex = n


\* the search of thread t makes the move it has chosen: the move is accepted
MoveAccepted(t) == fm[t].pc = "move" /\ fm'[t].moves = fm[t].moves + 1

VerticesInPQs(s) == UNION {DOMAIN s.vertexPQs[i] : i \in FMBlocks}

\* C22: findNextMove returns the top vertex only with a recomputed gain >= its
\* key, and this gain is >= every key left in the vertex PQs; otherwise it
\* lowers the key of the top vertex to the recomputed gain and retries; while
\* the partition does not change a call makes no more retries than there are
\* vertices in the PQs.
C22_FindNextMoveRetries ==
  /\ [](\A t \in FMThreadSet :
          /\ fm[t].pc = "loop" =>
               retriesInCall[t] <= Cardinality(VerticesInPQs(fm[t]))
          /\ fm[t].pc = "move" =>
               retriesInCall[t] <= Cardinality(VerticesInPQs(fm[t])) + 1)
  /\ [][\A t \in FMThreadSet :
          /\ (fm[t].pc = "loop" /\ fm'[t].pc = "move") =>
               LET mv == fm'[t].m
               IN /\ <<mv.from, mv.node>> \in TopChoices(fm[t].vertexPQs)
                  /\ mv.gain = bestDestinationBlock(PhgOf(t), mv.node).gain
                  /\ mv.gain >= fm[t].vertexPQs[mv.from][mv.node]
                  /\ mv.node \notin VerticesInPQs(fm'[t])
                  /\ \A i \in FMBlocks : \A v \in DOMAIN fm'[t].vertexPQs[i] :
                       /\ fm'[t].vertexPQs[i][v] = fm[t].vertexPQs[i][v]
                       /\ fm'[t].vertexPQs[i][v] <= mv.gain
          /\ (fm[t].pc = "loop" /\ fm'[t].pc = "loop" /\ fm'[t] # fm[t]) =>
               \E c \in TopChoices(fm[t].vertexPQs) :
                 /\ fm'[t].vertexPQs[c[1]][c[2]] = bestDestinationBlock(PhgOf(t), c[2]).gain
                 /\ fm'[t].vertexPQs[c[1]][c[2]] < fm[t].vertexPQs[c[1]][c[2]]
                 /\ VerticesInPQs(fm'[t]) = VerticesInPQs(fm[t])
                 /\ \A i \in FMBlocks : \A v \in DOMAIN fm[t].vertexPQs[i] :
                      v # c[2] => fm'[t].vertexPQs[i][v] = fm[t].vertexPQs[i][v]]_vars

\* findNextMove has returned a move after at least one retry
C22_Witness ==
  \E t \in FMThreadSet :
    /\ fm[t].pc = "move"
    /\ retriesInCall[t] >= 1
    /\ \A i \in FMBlocks : \A v \in DOMAIN fm[t].vertexPQs[i] :
         fm[t].vertexPQs[i][v] <= fm[t].m.gain


\* the gains of the moves in the move log of the search of thread t
MoveLogGains(t) ==
  IF perform_moves_global
  THEN [j \in 1..Len(fm[t].localMoveIDs) |-> moveTracker[fm[t].localMoveIDs[j]].gain]
  ELSE [j \in 1..Len(fm[t].localMoves) |-> fm[t].localMoves[j].gain]

\* the sum of the gains of the first n moves of the move log
RECURSIVE MoveLogSum(_, _)
MoveLogSum(t, n) == IF n = 0 THEN 0 ELSE MoveLogSum(t, n - 1) + MoveLogGains(t)[n]

\* the search of thread t is in its move loop
InMoveLoop(t) == fm[t].pc \in {"loop", "move"}

\* C23: in the move loop of a local search bestImprovement is the maximum of
\* the cumulative gains of the prefixes of the move log, the empty prefix
\* included, bestImprovementIndex is the length of a prefix that attains it,
\* and an accepted move sets the index to the new length of the log exactly
\* when the cumulative gain exceeds bestImprovement, or equals it and zero
\* gain moves are allowed or toWeight + w(u) < heaviestPartWeight.
C23_BestPrefixOfMoveLog ==
  /\ [](\A t \in FMThreadSet :
          InMoveLoop(t) =>
            LET n == Len(MoveLogGains(t))
            IN /\ fm[t].estimatedImprovement = MoveLogSum(t, n)
               /\ \A j \in 0..n : MoveLogSum(t, j) <= fm[t].bestImprovement
               /\ fm[t].bestImprovementIndex \in 0..n
               /\ MoveLogSum(t, fm[t].bestImprovementIndex) = fm[t].bestImprovement)
  /\ [][\A t \in FMThreadSet :
          MoveAccepted(t) =>
            LET mv == fm[t].m
                estimated == fm[t].estimatedImprovement + mv.gain
                toWeight == fmPartWeight(PhgOf(t), mv.to)
                tie == \/ allow_zero_gain_moves
                       \/ \E i \in FMBlocks :
                            toWeight + nodeWeight(mv.node) < fmPartWeight(PhgOf(t), i)
                better == \/ estimated > fm[t].bestImprovement
                          \/ (estimated = fm[t].bestImprovement /\ tie)
            IN IF better
               THEN /\ fm'[t].bestImprovementIndex = Len(MoveLogGains(t)) + 1
                    /\ fm'[t].bestImprovement = estimated
               ELSE /\ fm'[t].bestImprovementIndex = fm[t].bestImprovementIndex
                    /\ fm'[t].bestImprovement = fm[t].bestImprovement]_vars

\* a search has made moves after the best prefix of its move log
C23_Witness ==
  \E t \in FMThreadSet :
    /\ fm[t].pc = "loop"
    /\ fm[t].bestImprovementIndex >= 1
    /\ Len(MoveLogGains(t)) > fm[t].bestImprovementIndex
    /\ fm[t].estimatedImprovement < fm[t].bestImprovement


\* clearPQs of the search of thread t returns: the search ends
SearchEnds(t) == fm[t].pc = "release" /\ fm'[t].pc = "idle"

AppliedWeight(p, q) ==
  SumFn([i \in 1..Len(tasks) |->
           IF tasks[i].st # "skip" /\ tasks[i].m.from = p /\ tasks[i].m.to = q
           THEN nodeWeight(tasks[i].m.node) ELSE 0], 1..Len(tasks))

\* the number of blocks from which the move buffer holds a move into block b
InvolvementsOf(b) ==
  Cardinality({p \in LPBlocks \ {b} :
                 \E i \in 1..Len(sorted_moves) :
                   sorted_moves[i].from = p /\ sorted_moves[i].to = b})

\* the slack of block b before strategy A, divided by its involvements
SlackShare(b) ==
  (LPMaxPartWeight - partWeight(start_part, b)) \div Max(1, InvolvementsOf(b))

\* C25: when every block is within its maximum weight before strategy A, the
\* net weight strategy A moves from p1 to p2 lies in [lb_p1, ub_p2] for every
\* block pair, the net inflow of a block from a pair is at most its slack
\* divided by its involvements, and every block is within its maximum weight
\* when the moves are applied.
C25_StrategyAKeepsBalance ==
  (lpc = "a_apply" /\ \A b \in LPBlocks : partWeight(start_part, b) <= LPMaxPartWeight) =>
     /\ \A p1, p2 \in LPBlocks :
          p1 < p2 =>
            LET net == AppliedWeight(p1, p2) - AppliedWeight(p2, p1)
            IN 0 - SlackShare(p1) <= net /\ net <= SlackShare(p2)
     /\ \A b \in LPBlocks :
          SumFn([p \in LPBlocks |-> AppliedWeight(p, b) - AppliedWeight(b, p)], LPBlocks \ {b})
            <= LPMaxPartWeight - partWeight(start_part, b)
     /\ ApplyFinished => \A b \in LPBlocks : partWeight(part_id, b) <= LPMaxPartWeight

\* strategy A has applied a prefix of the moves of a block pair and has kept
\* back a move into a block that two other blocks send moves to
C25_Witness ==
  /\ lpc = "a_apply" /\ ApplyFinished
  /\ \A b \in LPBlocks : partWeight(start_part, b) <= LPMaxPartWeight
  /\ \E i \in 1..Len(tasks) : tasks[i].st = "done"
  /\ \E i \in 1..Len(tasks) :
       tasks[i].st = "skip" /\ InvolvementsOf(tasks[i].m.to) >= 2


\* the pairs of prefix ends of the two directions whose weight difference lies
\* in [lb_p1, ub_p2]
FeasiblePrefixPairs ==
  {pr \in (prefix_in.p1_begin..prefix_in.p1_end) \X (prefix_in.p2_begin..prefix_in.p2_end) :
     LET bal == balance(prefix_in.c, pr[1] - 1, pr[2] - 1,
                        prefix_in.p1_invalid, prefix_in.p2_invalid)
     IN  prefix_in.lb_p1 <= bal /\ bal <= prefix_in.ub_p2}

\* C26: the pair findBestPrefixesSequentially returns is feasible and no
\* feasible pair has a longer first or a longer second prefix; it returns
\* invalid only if no pair of prefixes, the empty ones included, is feasible
C26_SequentialFindsRightmostPair ==
  prefix_run.pc = "done" =>
    IF prefix_run.sequential = <<invalid_pos, invalid_pos>>
      THEN FeasiblePrefixPairs = {}
      ELSE /\ prefix_run.sequential \in FeasiblePrefixPairs
           /\ \A pr \in FeasiblePrefixPairs :
                pr[1] <= prefix_run.sequential[1] /\ pr[2] <= prefix_run.sequential[2]

\* C27: findBestPrefixesRecursive returns the pair of prefix ends that
\* findBestPrefixesSequentially returns on the whole ranges
C27_RecursiveEqualsSequential ==
  prefix_run.pc = "done" => prefix_run.recursive = prefix_run.sequential


\* the part weights that result from the moves of the buffer that are not reverted
B1KeptPartWeights ==
  LET kept == {i \in 1..Len(b1_run.mv) : isValid(b1_run.mv[i])}
  IN  [b \in LPBlocks |->
         B1PartWeight(b1_phg, b)
         + Cardinality({i \in kept : b1_run.mv[i].to = b})
         - Cardinality({i \in kept : b1_phg[b1_run.mv[i].node] = b})]

\* C28: the revert passes of applyMovesSortedByGainAndRevertUnbalanced read no
\* move outside the buffer, they end (every extra pass that does not end the
\* loop reverts a move, so there are at most num_moves + 1 of them), and when
\* they have ended the moves that are not reverted overload no block
C28_RevertPassesEndBalanced ==
  /\ b1_run.pc \notin {"outside", "fault"}
  /\ b1_run.pc # "sort" => b1_run.num_extra_rounds <= Len(b1_run.mv) + 1
  /\ b1_run.pc = "done" => \A b \in LPBlocks : B1KeptPartWeights[b] <= LPMaxPartWeight


\* the number of blocks above the maximum part weight in the partition part
OverloadedBlocks(part) ==
  Cardinality({b \in LPBlocks : partWeight(part, b) > LPMaxPartWeight})

\* the sum of the recalculated gains of the first n sorted moves
PrefixGain(n) == SumFn([i \in 1..n |-> b2_run.mv[i].gain], 1..n)

\* the prefix lengths that leave no more blocks overloaded than the pass started with
EligiblePrefixes ==
  {n \in 0..Len(b2_run.mv) :
     OverloadedBlocks(AfterPrefix(b2_phg.part, b2_run.mv, n)) <= OverloadedBlocks(b2_phg.part)}

\* C29: strategy B2 has moved exactly the vertices of the moves [0, best_index),
\* best_index is an eligible prefix length of maximal cumulative recalculated
\* gain, and the returned gain is that maximum and not negative
C29_BestEligiblePrefixApplied ==
  b2_run.pc = "done" =>
    /\ b2_run.best_index \in EligiblePrefixes
    /\ \A n \in EligiblePrefixes : PrefixGain(n) <= PrefixGain(b2_run.best_index)
    /\ b2_run.best_gain = PrefixGain(b2_run.best_index)
    /\ b2_run.best_gain >= 0
    /\ \A u \in LPNodeSet :
         b2_run.part[u] =
           IF \E i \in 1..b2_run.best_index : b2_run.mv[i].node = u
             THEN b2_run.mv[CHOOSE i \in 1..b2_run.best_index : b2_run.mv[i].node = u].to
             ELSE b2_phg.part[u]

\* a proper prefix was applied although a longer prefix has a higher cumulative
\* gain, because the longer one overloads one more block
C29_Witness ==
  /\ b2_run.pc = "done"
  /\ b2_run.best_index > 0
  /\ \E n \in (b2_run.best_index + 1)..Len(b2_run.mv) :
       n \notin EligiblePrefixes /\ PrefixGain(n) > b2_run.best_gain

\* the km1 objective of the partition part under the edge weights of strategy B2
B2Km1(part) ==
  SumFn([he \in LPHes |->
           b2_phg.edge_weight[he] * (Cardinality({part[u] : u \in LPPins[he]}) - 1)], LPHes)

\* performMoveWithAttributedGain of vertex u from block from to block to on the
\* partition part: every incident hyperedge whose pin count in from drops to 0
\* adds its weight, every one whose pin count in to becomes 1 takes it away
SequentialGain(part, u, from, to) ==
  LET after == [part EXCEPT ![u] = to]
  IN  SumFn([he \in LPHes |->
               IF u \in LPPins[he]
                 THEN (IF Cardinality({v \in LPPins[he] : after[v] = from}) = 0
                         THEN b2_phg.edge_weight[he] ELSE 0)
                      - (IF Cardinality({v \in LPPins[he] : after[v] = to}) = 1
                           THEN b2_phg.edge_weight[he] ELSE 0)
                 ELSE 0], LPHes)

RecalculationFinished == b2_run.pc \in {"apply", "done"}

RecalcThreadsDone ==
  /\ recalc.pc = "recalc"
  /\ \A t \in RecalcThreadSet : recalc_thread[t].pc = "next" /\ recalc_thread[t].todo = {}

\* C31: in every recalculation round no hyperedge is processed twice, and when
\* all threads are through, every hyperedge incident to a moved vertex was
\* processed exactly once
C31_EveryTouchedEdgeProcessedOnce ==
  /\ recalc.pc = "recalc" => \A e \in RecalcHeSet : recalc.processed[e] <= 1
  /\ RecalcThreadsDone => \A e \in RecalcTouched : recalc.processed[e] = 1


\* C32 (as the code has it): after strategy A the second strategy runs iff
\* strategy A realized a positive gain and left moves in the buffer, and the
\* strategy that runs is B2 with recalculate_gains_on_second_apply, B1 without
C32_SecondStrategyNeedsPositiveGain ==
  [][/\ refine.pc = "strategy_a" =>
          (refine'.pc = "second" <=>
             (refine'.sub_round_improvement > 0 /\ refine'.residual > 0))
     /\ refine.pc = "second" =>
          refine'.second = IF refine.recalculate_gains_on_second_apply THEN "B2" ELSE "B1"
     /\ refine.pc # "second" => refine'.second \in {refine.second, "none"}]_vars

\* strategy B2 has run on the moves strategy A left
C32_Witness ==
  /\ refine.pc = "sub_end"
  /\ refine.second = "B2"
  /\ refine.residual > 0

\* C32 (as stated): whenever strategy A leaves moves in the buffer, the second
\* strategy runs, whatever gain strategy A realized
C32_SecondStrategyWheneverMovesRemain ==
  [][(refine.pc = "strategy_a" /\ refine'.residual > 0) => refine'.pc = "second"]_vars


\* C33 (as the code has it): num_sub_rounds changes only at the end of an
\* iteration in which strategy A reverted its moves, and then to
\* min(num_buckets, 2 * num_sub_rounds); it never exceeds num_buckets; the
\* refiner stops after the first iteration in which no sub-round computed a
\* move, and after at most maximum_iterations iterations
C33_SubRoundsDoubleUpToNumBuckets ==
  /\ [](refine.num_sub_rounds <= RINumBuckets /\ refine.iter <= RIMaxIterations)
  /\ [](refine.iter = RIMaxIterations => refine.pc = "done")
  /\ [][/\ refine'.num_sub_rounds # refine.num_sub_rounds =>
             /\ refine'.iter = refine.iter + 1
             /\ refine.increase_sub_rounds
             /\ refine'.num_sub_rounds = Min(RINumBuckets, 2 * refine.num_sub_rounds)
        /\ (refine'.increase_sub_rounds /\ ~refine.increase_sub_rounds) =>
             (refine.pc = "strategy_a" /\ refine'.reverted)
        /\ (refine'.iter # refine.iter /\ refine'.last_num_moves = 0) =>
             refine'.pc = "done"
        /\ refine.pc = "done" => refine' = refine]_vars

\* an iteration in which strategy A reverted has ended, and num_sub_rounds went
\* from 3 to num_buckets = 4
C33_Witness ==
  /\ refine.iter > 0
  /\ refine.last_increase
  /\ refine.last_num_sub_rounds = 3
  /\ refine.num_sub_rounds = RINumBuckets

\* C33 (as stated): num_sub_rounds changes only by doubling
C33_SubRoundsChangeOnlyByDoubling ==
  [][refine'.num_sub_rounds # refine.num_sub_rounds =>
       refine'.num_sub_rounds = 2 * refine.num_sub_rounds]_vars


\* the elements of the queue that were not popped yet, in the order of the array
FifoLiveWindow ==
  SubSeq(fifo.q.elements, fifo.q.front + 1, Len(fifo.q.elements))

\* C34: without concurrent pops the elements are popped in the order in which
\* they were pushed: what was popped followed by the live window is what was
\* pushed, a pop fails only when everything pushed was popped, and a push that
\* reallocates leaves the old live window followed by the new element at the
\* positions [0, n) with front = 0
C34_FifoAcrossReallocation ==
  /\ [](/\ fifo.popped \o FifoLiveWindow = fifo.pushed
        /\ fifo.q.front <= Len(fifo.q.elements)
        /\ fifo.last = "empty" => fifo.popped = fifo.pushed)
  /\ [][fifo'.last = "realloc" /\ fifo'.pushed # fifo.pushed =>
          /\ fifo'.q.front = 0
          /\ fifo'.q.elements = FifoLiveWindow \o <<fifo'.pushed[Len(fifo'.pushed)]>>
          /\ fifo'.popped = fifo.popped]_vars

\* a push has just reallocated a queue from which elements were popped before
\* and which held elements that were not popped yet
C34_Witness ==
  /\ fifo.last = "realloc"
  /\ Len(fifo.popped) > 0
  /\ Len(fifo.q.elements) > 1


\* the producer has finished its pushes, no pop is under way and the next
\* try_pop_front fails
QueueDrained ==
  /\ ppc = "idle" /\ nPushed = MaxPush
  /\ \A c \in Consumers : cpc[c] = "idle"
  /\ ~(front < in_reallocation /\ front < Len(elements))

\* C39: when the producer has finished and the consumers popped until
\* try_pop_front fails, every pushed element was returned by a successful pop
C39_NoPushedElementLost ==
  QueueDrained => \A el \in 1..MaxPush : popped[el] >= 1


\* C35: front holds a value >= in_reallocation only while the producer is inside
\* the reallocating branch of push_back, the producer then stores a valid index
\* whatever the consumers added to front meanwhile, and with a fair producer
\* every consumer that spins on currently_blocked() leaves the loop and its
\* try_pop returns
C35_BlockedQueueIsReleased ==
  /\ [](front >= in_reallocation => ppc \in {"cas", "realloc", "compact", "release"})
  /\ [][ppc = "release" /\ ppc' # "release" => front' < in_reallocation]_vars
  /\ (front >= in_reallocation) ~> (front < in_reallocation)
  /\ \A c \in Consumers : (cpc[c] = "spin") ~> (cpc[c] = "idle")

\* a consumer spins on a queue to whose blocked front another consumer has added
C35_Witness ==
  /\ \E c \in Consumers : cpc[c] = "spin"
  /\ front > in_reallocation



\* the vertices the moves applied in this round have to activate: the pins of
\* the hyperedges of size at most the threshold that are incident to a moved vertex
ActNeighbours ==
  UNION {ActPins(he) : he \in {x \in UNION {ActIncidentEdges(m) : m \in activation.moved} :
                                 Cardinality(ActPins(x)) <= hyperedge_size_activation_threshold}}

\* C36: in every round a vertex is appended to active_nodes at most once, and
\* when the moves of the round are applied every pin of every hyperedge of size
\* at most the threshold that is incident to a moved vertex was appended
C36_NeighboursActivatedOnce ==
  /\ \A v \in ActNodeSet : activation.appended[v] <= 1
  /\ activation.pc = "round" => \A v \in ActNeighbours : activation.appended[v] >= 1


\* the block PQ that matches the vertex PQs pqs
ConsistentBlockPQ(pqs) == [i \in blockPQ(pqs) |-> topKey(pqs[i])]

\* C38: whenever findNextMove is entered and at every iteration of its retry
\* loop, the block PQ contains block b iff vertexPQs[b] is not empty and its key
\* for b is the top key of vertexPQs[b]
C38_BlockPQMatchesVertexPQs ==
  \A t \in FMThreadSet :
    fm[t].pc = "loop" => fm[t].blockPQ = ConsistentBlockPQ(fm[t].vertexPQs)


\* after a move with neighbour updates findNextMove has retried, and the block
\* PQ still holds a block
C38_Witness ==
  \E t \in FMThreadSet :
    /\ fm[t].pc = "loop"
    /\ fm[t].moves > 0
    /\ retriesInCall[t] > 0
    /\ fm[t].blockPQ # EmptyPQ


\* the vertices of the moves a search has made, in the order of its move log
FMMoveLogNodes(t) ==
  IF perform_moves_global
  THEN [j \in 1..Len(fm[t].insertedIDs) |-> moveTracker[fm[t].insertedIDs[j]].node]
  ELSE [j \in 1..Len(fm[t].localMoves) |-> fm[t].localMoves[j].node]

\* C37: within one local search every vertex is moved at most once; the vertex
\* findNextMove extracted is deactivated when the move is tried; a deactivated
\* vertex stays deactivated, is in no vertex PQ of a search that is in its loop,
\* and no search inserts it into a vertex PQ or changes its key
C37_MovedAtMostOncePerSearch ==
  /\ [](\A t \in FMThreadSet :
          /\ \A j, l \in DOMAIN FMMoveLogNodes(t) :
               j # l => FMMoveLogNodes(t)[j] # FMMoveLogNodes(t)[l]
          /\ \A j \in DOMAIN FMMoveLogNodes(t) :
               searchOfNode[FMMoveLogNodes(t)[j]] = deactivatedNodeMarker
          /\ fm[t].pc = "move" =>
               /\ searchOfNode[fm[t].m.node] = deactivatedNodeMarker
               /\ \A j \in DOMAIN FMMoveLogNodes(t) : FMMoveLogNodes(t)[j] # fm[t].m.node
          /\ fm[t].pc \in {"loop", "move"} =>
               \A v \in PQNodes(fm[t].vertexPQs) :
                  searchOfNode[v] # deactivatedNodeMarker)
  /\ [][\A v \in FMNodeSet :
          searchOfNode[v] = deactivatedNodeMarker =>
             /\ searchOfNode'[v] = deactivatedNodeMarker
             /\ \A t \in FMThreadSet : \A i \in FMBlocks :
                  v \in DOMAIN fm'[t].vertexPQs[i] =>
                    /\ v \in DOMAIN fm[t].vertexPQs[i]
                    /\ fm'[t].vertexPQs[i][v] = fm[t].vertexPQs[i][v]]_vars

\* a search goes on after a move whose neighbour update visited a hyperedge of
\* the moved, deactivated vertex, with vertices left in its vertex PQs
C37_Witness ==
  \E t \in FMThreadSet :
    /\ fm[t].pc = "loop"
    /\ PQNodes(fm[t].vertexPQs) # {}
    /\ \E j \in DOMAIN FMMoveLogNodes(t) :
         \E e \in fm[t].validHyperedges : FMMoveLogNodes(t)[j] \in FMPins[e]


\* C40: GainDeltaStrategy: when every key equalled the km1 gain before a move,
\* then after the move and deltaGainUpdates for all hyperedges incident to the
\* moved vertex every vertex still in the search is again stored, in the queue
\* of every block but its own, with the km1 gain of moving it there, for
\* every number of blocks k >= 2
C40_KeysEqualGainsAfterUpdates ==
  gd # << >> /\ gd.pc = "updated" /\ gd.pre
    => GDKeysMatch(gd.k, gd.part, gd.vertexPQs)

=============================================================================
